---- MODULE Spec2Model ----
(***************************************************************************)
(* Layout, focus and visibility state machine of the LLM Manager TUI       *)
(* (src/src/llm_manager/gui/main_window.py, root_pane.py, menu.py).        *)
(*                                                                         *)
(* The layout state of LLMManagerApp is                                    *)
(*   pane_states      self.pane_states          (dict pane -> PaneState)   *)
(*   maximized_pane   self.maximized_pane       (a pane or None)           *)
(*   row_hidden       "row-hidden" class on each ".pane-row" container     *)
(*   pane_row_hidden  "row-hidden" class on each pane widget               *)
(*   pane_minimized   "pane-minimized" class on each pane widget           *)
(*   display          pane.styles.display       ("block" / "none")         *)
(*   row_height       row.styles.height         ("1fr" / "2fr" / "3fr")    *)
(*   focused          self.focused              (the widget holding focus) *)
(*   edit_mode        EditablePane.edit_mode    (gui/pane.py)              *)
(* Every handler is a pure operator on a record of the first seven fields; *)
(* the edit-mode handlers are operators on a record of focused and         *)
(* edit_mode; an action applies the handler to the current record.         *)
(* Spec is the application with every pane in command mode; SpecMode adds  *)
(* the keys and the mouse focus that move a pane between command and edit  *)
(* mode, and the loss of focus of a widget that is no longer displayed.    *)
(* last_action, maximized_before, edit_mode_before and steps are history   *)
(* variables: the last command with the pane it acted on, the values of    *)
(* maximized_pane and edit_mode when that command arrived, and the number  *)
(* of commands handled.                                                    *)
(*                                                                         *)
(* The text state (gui/pane.py, gui/response_pane.py) is                   *)
(*   content            the text of each EditablePane's TextArea           *)
(*   stored             the storage file of each EditablePane              *)
(*   response_text      ResponsePane.response_text                         *)
(*   status             ResponsePane.status                                *)
(*   streaming_enabled  ResponsePane.streaming_enabled                     *)
(*   tasks              the workers started by action_send_to_llm          *)
(* the model selection (core/llm_client.py, gui/llm_pane.py) is            *)
(*   llm_client         current_model, model_config and the provider       *)
(*                      clients of LLMManagerApp.llm_client                *)
(*   llm_pane           selected_model, select_mode and staged_model of    *)
(*                      the LLMSelectionPane, and whether its confirmation *)
(*                      screen is open                                     *)
(*   api_key            whether settings holds an API key, by provider     *)
(* and the conversation history (core/conversation.py) is                  *)
(*   turns              ConversationHistory.turns                          *)
(*   MAX_HISTORY_ITEMS  settings.MAX_HISTORY_ITEMS                         *)
(* A text is a sequence of characters, a response a sequence of chunks.    *)
(* turns_before, turns_added and recent are history variables: the turns   *)
(* before the last history operation, the turns it was given, and the last *)
(* count and result of get_recent_turns.                                   *)
(* SpecText is a session of keys and mouse clicks on the texts and modes   *)
(* with the workers of the requests running, SpecSend a session of the     *)
(* request and layout keys with the workers running, FairSpecSend the same *)
(* under an event loop that runs every ready worker, and SpecHistory the   *)
(* conversation history under a configured limit.  SpecModel is a session *)
(* of model selections and requests under every configuration of the API   *)
(* keys.                                                                   *)
(***************************************************************************)
EXTENDS Integers, Sequences, FiniteSets

VARIABLES pane_states, maximized_pane, row_hidden, pane_row_hidden,
          pane_minimized, display, row_height, focused, edit_mode,
          last_action, maximized_before, edit_mode_before, steps,
          content, stored, response_text, status, streaming_enabled, tasks,
          turns, MAX_HISTORY_ITEMS, turns_before, turns_added, recent,
          llm_client, llm_pane, api_key

layoutVars == <<pane_states, maximized_pane, row_hidden, pane_row_hidden,
                pane_minimized, display, row_height>>
vars == <<pane_states, maximized_pane, row_hidden, pane_row_hidden,
          pane_minimized, display, row_height, focused, edit_mode,
          last_action, maximized_before, edit_mode_before, steps,
          content, stored, response_text, status, streaming_enabled, tasks,
          turns, MAX_HISTORY_ITEMS, turns_before, turns_added, recent,
          llm_client, llm_pane, api_key>>
textVars == <<content, stored, response_text, status, streaming_enabled>>
historyVars == <<turns, MAX_HISTORY_ITEMS, turns_before, turns_added, recent>>
modelVars == <<llm_client, llm_pane, api_key>>

\* Number of commands explored from the initial state.
MaxSteps == 5

\* Number of commands explored from the initial state when only the focus
\* and layout keys are pressed.
MaxKeySteps == 8

\* Number of commands explored from the initial state when the keys and
\* the mouse focus of the editable panes are explored too.
MaxModeSteps == 4

None == "None"

\* _get_pane_row returns None for a pane that is in no row.
NoRow == -1

\* settings.MAX_HISTORY_ITEMS when the environment does not configure it.
DEFAULT_MAX_HISTORY_ITEMS == 100

\* Longest text typed into a pane.
MaxLen == 1
\* A text is a sequence of characters; " " stands for white space and "a"
\* for any other character.
Texts == UNION {[1..n -> {" ", "a"}] : n \in 0..MaxLen}

\* Most chunks one response stream yields.
MaxChunks == 1
\* Most workers started.
MaxTasks == 2
Tasks == 1..MaxTasks
\* A worker is waiting for the event loop ("scheduled"), suspended in the
\* sleep of its streaming loop ("streaming"), or finished ("done", or
\* "failed" after the except branch).
NoTask == [pc |-> "none", streaming |-> FALSE, chunks |-> 0,
           full_response |-> <<>>, user_prompt |-> <<>>,
           system_prompt |-> <<>>, context |-> <<>>]

\* PaneState enum values.
NORMAL == "normal"
MAXIMIZED == "maximized"
MINIMIZED == "minimized"
PaneState == {NORMAL, MAXIMIZED, MINIMIZED}

\* Widget ids given in LLMManagerApp.__init__.
root_pane == "root-pane"
user_prompt_pane == "user-prompt-pane"
system_prompt_pane == "system-prompt-pane"
context_pane == "context-pane"
llm_selection_pane == "llm-selection-pane"
response_pane == "response-pane"

\* The ordered list of all panes including root.
_get_pane_list ==
    <<root_pane, user_prompt_pane, system_prompt_pane, context_pane,
      llm_selection_pane, response_pane>>

\* root_pane.child_panes as stored by on_mount.
child_panes ==
    <<user_prompt_pane, system_prompt_pane, context_pane,
      llm_selection_pane, response_pane>>

Range(seq) == {seq[i] : i \in 1..Len(seq)}
Panes == Range(_get_pane_list)
ChildPanes == Range(child_panes)

\* The ".pane-row" containers in document order, each with its children.
pane_rows ==
    <<{user_prompt_pane, system_prompt_pane},
      {context_pane, llm_selection_pane},
      {response_pane}>>
Rows == 0..(Len(pane_rows) - 1)
RowChildren(idx) == pane_rows[idx + 1]

\* The panes built as EditablePane, and the EditableTextArea each of them
\* composes with id "<pane id>-content".
EditablePanes == {user_prompt_pane, system_prompt_pane, context_pane}

content_widget(pane) ==
    CASE pane = user_prompt_pane -> "user-prompt-pane-content"
      [] pane = system_prompt_pane -> "system-prompt-pane-content"
      [] pane = context_pane -> "context-pane-content"

TextAreas == {content_widget(pane) : pane \in EditablePanes}

\* The OptionList the LLMSelectionPane composes.
model_option_list == "model-option-list"

\* widget.parent, followed up to the nearest widget of the pane list: the
\* rows and #root-content between a child pane and the root are no panes.
Parent(w) ==
    IF w \in ChildPanes THEN root_pane
    ELSE IF w \in TextAreas
         THEN CHOOSE pane \in EditablePanes : content_widget(pane) = w
    ELSE IF w = model_option_list THEN llm_selection_pane
    ELSE None

\* Row index of a pane; the root pane has no row.
_get_pane_row(pane) ==
    IF pane = root_pane THEN NoRow
    ELSE IF pane \in {user_prompt_pane, system_prompt_pane} THEN 0
    ELSE IF pane \in {context_pane, llm_selection_pane} THEN 1
    ELSE IF pane = response_pane THEN 2
    ELSE NoRow

\* Walk up from the focused widget to the first widget of the pane list.
RECURSIVE _walk_to_pane(_)
_walk_to_pane(current) ==
    IF current = None THEN None
    ELSE IF current \in Panes THEN current
    ELSE _walk_to_pane(Parent(current))

_get_focused_pane(f) == _walk_to_pane(f)

IndexOf(seq, x) == CHOOSE i \in 1..Len(seq) : seq[i] = x

\* An index lookup that does not walk up from the focused widget.
_find_current_pane_index_no_walk(f) ==
    IF f \in Panes THEN IndexOf(_get_pane_list, f) - 1 ELSE 0

\* 0-based index of the pane owning focus, 0 when there is none.
_find_current_pane_index(f) ==
    LET owner == _walk_to_pane(f)
    IN  IF owner = None THEN 0 ELSE IndexOf(_get_pane_list, owner) - 1

(***************************************************************************)
(* The layout record and the handlers as operators on it.                  *)
(***************************************************************************)
Cur ==
    [pane_states |-> pane_states, maximized_pane |-> maximized_pane,
     row_hidden |-> row_hidden, pane_row_hidden |-> pane_row_hidden,
     pane_minimized |-> pane_minimized, display |-> display,
     row_height |-> row_height]

Commit(s) ==
    /\ pane_states' = s.pane_states
    /\ maximized_pane' = s.maximized_pane
    /\ row_hidden' = s.row_hidden
    /\ pane_row_hidden' = s.pane_row_hidden
    /\ pane_minimized' = s.pane_minimized
    /\ display' = s.display
    /\ row_height' = s.row_height

_maximize_pane(s, pane) ==
    LET target_row_idx == _get_pane_row(pane)
    IN  IF target_row_idx = NoRow THEN s
        ELSE [s EXCEPT
                !.row_hidden =
                    [idx \in Rows |-> IF idx # target_row_idx THEN TRUE
                                      ELSE s.row_hidden[idx]],
                !.pane_row_hidden =
                    [child \in Panes |->
                        IF child \in RowChildren(target_row_idx) /\ child # pane
                        THEN TRUE ELSE s.pane_row_hidden[child]],
                !.pane_states[pane] = MAXIMIZED]

\* A restore that also returns the Minimized panes to Normal.
_restore_all_panes_every_pane(s) ==
    [s EXCEPT
        !.row_hidden = [idx \in Rows |-> FALSE],
        !.pane_row_hidden = [pane \in Panes |-> FALSE],
        !.pane_states = [pane \in Panes |-> NORMAL]]

\* A restore that also puts every row back at "1fr".
_restore_all_panes_reset_heights(s) ==
    [s EXCEPT
        !.row_hidden = [idx \in Rows |-> FALSE],
        !.pane_row_hidden = [pane \in Panes |-> FALSE],
        !.row_height = [idx \in Rows |-> "1fr"],
        !.pane_states = [pane \in Panes |->
                            IF s.pane_states[pane] # MINIMIZED THEN NORMAL
                            ELSE s.pane_states[pane]]]

\* A restore that forgets the "row-hidden" class of the panes.
_restore_all_panes_rows_only(s) ==
    [s EXCEPT
        !.row_hidden = [idx \in Rows |-> FALSE],
        !.pane_states = [pane \in Panes |->
                            IF s.pane_states[pane] # MINIMIZED THEN NORMAL
                            ELSE s.pane_states[pane]]]

\* A restore that forgets the "row-hidden" class of the rows.
_restore_all_panes_panes_only(s) ==
    [s EXCEPT
        !.pane_row_hidden = [pane \in Panes |-> FALSE],
        !.pane_states = [pane \in Panes |->
                            IF s.pane_states[pane] # MINIMIZED THEN NORMAL
                            ELSE s.pane_states[pane]]]

_restore_all_panes(s) ==
    [s EXCEPT
        !.row_hidden = [idx \in Rows |-> FALSE],
        !.pane_row_hidden = [pane \in Panes |-> FALSE],
        !.pane_states = [pane \in Panes |->
                            IF s.pane_states[pane] # MINIMIZED THEN NORMAL
                            ELSE s.pane_states[pane]]]

\* A switch of the maximized pane that does not restore the old one first.
action_toggle_maximize_no_restore(s, pane) ==
    IF pane = None THEN s
    ELSE IF s.maximized_pane = pane THEN
        [_restore_all_panes(s) EXCEPT !.maximized_pane = None]
    ELSE
        [_maximize_pane(s, pane) EXCEPT !.maximized_pane = pane]

action_toggle_maximize(s, pane) ==
    IF pane = None THEN s
    ELSE IF s.maximized_pane = pane THEN
        [_restore_all_panes(s) EXCEPT !.maximized_pane = None]
    ELSE IF s.maximized_pane # None THEN
        [_maximize_pane(_restore_all_panes(s), pane) EXCEPT !.maximized_pane = pane]
    ELSE
        [_maximize_pane(s, pane) EXCEPT !.maximized_pane = pane]

\* A minimize toggle without the "can't minimize if maximized" guard.
action_toggle_minimize_unguarded(s, pane) ==
    IF pane = None THEN s
    ELSE IF s.pane_states[pane] = MINIMIZED THEN
        [s EXCEPT !.pane_minimized[pane] = FALSE, !.pane_states[pane] = NORMAL]
    ELSE
        [s EXCEPT !.pane_minimized[pane] = TRUE, !.pane_states[pane] = MINIMIZED]

action_toggle_minimize(s, pane) ==
    IF pane = None THEN s
    ELSE IF s.maximized_pane = pane THEN s
    ELSE IF s.pane_states[pane] = MINIMIZED THEN
        [s EXCEPT !.pane_minimized[pane] = FALSE, !.pane_states[pane] = NORMAL]
    ELSE
        [s EXCEPT !.pane_minimized[pane] = TRUE, !.pane_states[pane] = MINIMIZED]

\* A ladder that goes from 2fr straight to Maximized.
action_increase_height_skip_3fr(s, pane) ==
    IF pane = None THEN s
    ELSE IF s.maximized_pane = pane THEN
        [_restore_all_panes(s) EXCEPT
            !.maximized_pane = None,
            !.pane_minimized[pane] = TRUE,
            !.pane_states[pane] = MINIMIZED]
    ELSE IF s.pane_states[pane] = MINIMIZED THEN
        LET t == [s EXCEPT !.pane_minimized[pane] = FALSE,
                           !.pane_states[pane] = NORMAL]
            row_idx == _get_pane_row(pane)
        IN  IF row_idx # NoRow THEN [t EXCEPT !.row_height[row_idx] = "1fr"]
            ELSE t
    ELSE
        LET row_idx == _get_pane_row(pane)
        IN  IF row_idx = NoRow THEN s
            ELSE IF s.row_height[row_idx] = "1fr" THEN
                [s EXCEPT !.row_height[row_idx] = "2fr"]
            ELSE
                [_maximize_pane(s, pane) EXCEPT !.maximized_pane = pane]

action_increase_height(s, pane) ==
    IF pane = None THEN s
    ELSE IF s.maximized_pane = pane THEN
        \* Maximized -> Minimized
        [_restore_all_panes(s) EXCEPT
            !.maximized_pane = None,
            !.pane_minimized[pane] = TRUE,
            !.pane_states[pane] = MINIMIZED]
    ELSE IF s.pane_states[pane] = MINIMIZED THEN
        \* Minimized -> Normal (1fr)
        LET t == [s EXCEPT !.pane_minimized[pane] = FALSE,
                           !.pane_states[pane] = NORMAL]
            row_idx == _get_pane_row(pane)
        IN  IF row_idx # NoRow THEN [t EXCEPT !.row_height[row_idx] = "1fr"]
            ELSE t
    ELSE
        LET row_idx == _get_pane_row(pane)
        IN  IF row_idx = NoRow THEN s
            ELSE IF s.row_height[row_idx] = "1fr" THEN
                [s EXCEPT !.row_height[row_idx] = "2fr"]
            ELSE IF s.row_height[row_idx] = "2fr" THEN
                [s EXCEPT !.row_height[row_idx] = "3fr"]
            ELSE
                \* 3fr -> Maximized
                [_maximize_pane(s, pane) EXCEPT !.maximized_pane = pane]

\* A decrease that restores every pane when it lowers a row from 3fr.
action_decrease_height_restores(s, pane) ==
    IF pane = None THEN s
    ELSE IF s.maximized_pane = pane THEN
        \* Maximized -> 3fr
        LET t == [_restore_all_panes(s) EXCEPT !.maximized_pane = None]
            row_idx == _get_pane_row(pane)
        IN  IF row_idx # NoRow THEN [t EXCEPT !.row_height[row_idx] = "3fr"]
            ELSE t
    ELSE IF s.pane_states[pane] = MINIMIZED THEN
        \* Minimized -> Maximized
        LET t == [s EXCEPT !.pane_minimized[pane] = FALSE,
                           !.pane_states[pane] = NORMAL]
        IN  [_maximize_pane(t, pane) EXCEPT !.maximized_pane = pane]
    ELSE
        LET row_idx == _get_pane_row(pane)
        IN  IF row_idx = NoRow THEN s
            ELSE IF s.row_height[row_idx] = "3fr" THEN
                [_restore_all_panes(s) EXCEPT !.row_height[row_idx] = "2fr"]
            ELSE IF s.row_height[row_idx] = "2fr" THEN
                [s EXCEPT !.row_height[row_idx] = "1fr"]
            ELSE
                \* 1fr -> Minimized
                [s EXCEPT !.pane_minimized[pane] = TRUE,
                          !.pane_states[pane] = MINIMIZED]

\* A decrease that comes down from Maximized to 2fr.
action_decrease_height_to_2fr(s, pane) ==
    IF pane = None THEN s
    ELSE IF s.maximized_pane = pane THEN
        \* Maximized -> 2fr
        LET t == [_restore_all_panes(s) EXCEPT !.maximized_pane = None]
            row_idx == _get_pane_row(pane)
        IN  IF row_idx # NoRow THEN [t EXCEPT !.row_height[row_idx] = "2fr"]
            ELSE t
    ELSE IF s.pane_states[pane] = MINIMIZED THEN
        \* Minimized -> Maximized
        LET t == [s EXCEPT !.pane_minimized[pane] = FALSE,
                           !.pane_states[pane] = NORMAL]
        IN  [_maximize_pane(t, pane) EXCEPT !.maximized_pane = pane]
    ELSE
        LET row_idx == _get_pane_row(pane)
        IN  IF row_idx = NoRow THEN s
            ELSE IF s.row_height[row_idx] = "3fr" THEN
                [s EXCEPT !.row_height[row_idx] = "2fr"]
            ELSE IF s.row_height[row_idx] = "2fr" THEN
                [s EXCEPT !.row_height[row_idx] = "1fr"]
            ELSE
                \* 1fr -> Minimized
                [s EXCEPT !.pane_minimized[pane] = TRUE,
                          !.pane_states[pane] = MINIMIZED]

action_decrease_height(s, pane) ==
    IF pane = None THEN s
    ELSE IF s.maximized_pane = pane THEN
        \* Maximized -> 3fr
        LET t == [_restore_all_panes(s) EXCEPT !.maximized_pane = None]
            row_idx == _get_pane_row(pane)
        IN  IF row_idx # NoRow THEN [t EXCEPT !.row_height[row_idx] = "3fr"]
            ELSE t
    ELSE IF s.pane_states[pane] = MINIMIZED THEN
        \* Minimized -> Maximized
        LET t == [s EXCEPT !.pane_minimized[pane] = FALSE,
                           !.pane_states[pane] = NORMAL]
        IN  [_maximize_pane(t, pane) EXCEPT !.maximized_pane = pane]
    ELSE
        LET row_idx == _get_pane_row(pane)
        IN  IF row_idx = NoRow THEN s
            ELSE IF s.row_height[row_idx] = "3fr" THEN
                [s EXCEPT !.row_height[row_idx] = "2fr"]
            ELSE IF s.row_height[row_idx] = "2fr" THEN
                [s EXCEPT !.row_height[row_idx] = "1fr"]
            ELSE
                \* 1fr -> Minimized
                [s EXCEPT !.pane_minimized[pane] = TRUE,
                          !.pane_states[pane] = MINIMIZED]

\* A bulk hide that runs over the whole pane list, the Root pane included.
hide_all_children_with_root(s) ==
    [s EXCEPT !.display = [pane \in Panes |-> "none"]]

\* RootPane.hide_all_children / show_all_children
hide_all_children(s) ==
    [s EXCEPT !.display = [pane \in Panes |->
                IF pane \in ChildPanes THEN "none" ELSE s.display[pane]]]

show_all_children(s) ==
    [s EXCEPT !.display = [pane \in Panes |->
                IF pane \in ChildPanes THEN "block" ELSE s.display[pane]]]

\* RootPane.reset_layout
reset_layout(s) ==
    [s EXCEPT
        !.display = [pane \in Panes |->
                IF pane \in ChildPanes THEN "block" ELSE s.display[pane]],
        !.pane_minimized = [pane \in Panes |->
                IF pane \in ChildPanes THEN FALSE ELSE s.pane_minimized[pane]],
        !.row_height = [idx \in Rows |-> "1fr"],
        !.row_hidden = [idx \in Rows |-> FALSE]]

action_reset_layout(s) ==
    LET t == IF s.maximized_pane # None
             THEN [_restore_all_panes(s) EXCEPT !.maximized_pane = None]
             ELSE s
        u == reset_layout(t)
    IN  [u EXCEPT !.pane_states = [pane \in Panes |-> NORMAL]]

\* PaneMenuScreen._hide_highlighted_pane / _unhide_highlighted_pane, with
\* the highlighted option naming pane.
_hide_highlighted_pane(s, pane) ==
    IF s.display[pane] # "none" THEN [s EXCEPT !.display[pane] = "none"] ELSE s

_unhide_highlighted_pane(s, pane) ==
    IF s.display[pane] = "none" THEN [s EXCEPT !.display[pane] = "block"] ELSE s

(***************************************************************************)
(* Focus commands and the edit-mode handlers of gui/pane.py, as operators  *)
(* on the widget holding focus and on the record of focused and edit_mode. *)
(***************************************************************************)
\* A focus_next that passes over the panes whose display is "none".
RECURSIVE action_focus_next_skip_hidden(_)
action_focus_next_skip_hidden(f) ==
    LET next_pane == _get_pane_list[((_find_current_pane_index(f) + 1)
                                        % Len(_get_pane_list)) + 1]
    IN  IF display[next_pane] = "none" /\ \E pane \in Panes : display[pane] # "none"
        THEN action_focus_next_skip_hidden(next_pane)
        ELSE next_pane

\* The widget holding focus after action_focus_next / action_focus_previous.
action_focus_next(f) ==
    _get_pane_list[((_find_current_pane_index(f) + 1) % Len(_get_pane_list)) + 1]

action_focus_previous(f) ==
    _get_pane_list[((_find_current_pane_index(f) + Len(_get_pane_list) - 1)
                        % Len(_get_pane_list)) + 1]

CurMode == [focused |-> focused, edit_mode |-> edit_mode]

CommitMode(m) ==
    /\ focused' = m.focused
    /\ edit_mode' = m.edit_mode

\* An on_blur that leaves edit mode.
on_blur_exits(m, pane) == [m EXCEPT !.edit_mode[pane] = FALSE]

\* EditablePane.on_blur: the class "pane-focused" goes, the mode stays.
on_blur(m, pane) == m

\* widget.focus(): the widget w takes focus (w = None: nothing holds focus
\* any more) and an EditablePane that held it handles the blur.
set_focus(m, w) ==
    LET blurred == IF m.focused \in EditablePanes /\ m.focused # w
                   THEN on_blur(m, m.focused) ELSE m
    IN  [blurred EXCEPT !.focused = w]

\* A text area that takes focus without telling its pane.
on_focus_silent(m, pane) == m

\* EditableTextArea.on_focus: the text area of pane has taken focus.
on_focus(m, pane) ==
    IF ~m.edit_mode[pane] THEN [m EXCEPT !.edit_mode[pane] = TRUE] ELSE m

\* content_widget.focus(): focus moves to the text area of pane, whose
\* on_focus handler runs.
focus_content_widget(m, pane) ==
    on_focus(set_focus(m, content_widget(pane)), pane)

\* An enter_edit_mode that sets the flag and leaves focus on the pane.
enter_edit_mode_flag_only(m, pane) ==
    IF ~m.edit_mode[pane] THEN [m EXCEPT !.edit_mode[pane] = TRUE] ELSE m

\* EditablePane.enter_edit_mode
enter_edit_mode(m, pane) ==
    IF ~m.edit_mode[pane]
    THEN focus_content_widget([m EXCEPT !.edit_mode[pane] = TRUE], pane)
    ELSE m

\* EditablePane.exit_edit_mode
exit_edit_mode(m, pane) ==
    IF m.edit_mode[pane]
    THEN set_focus([m EXCEPT !.edit_mode[pane] = FALSE], pane)
    ELSE m

\* EditablePane.on_key
on_key(m, pane, key) ==
    IF ~m.edit_mode[pane] /\ key = "i" THEN enter_edit_mode(m, pane)
    ELSE IF m.edit_mode[pane] /\ key = "escape" THEN exit_edit_mode(m, pane)
    ELSE m

\* EditablePane.action_exit_edit_mode, bound to escape with priority.
action_exit_edit_mode(m, pane) ==
    IF m.edit_mode[pane] THEN exit_edit_mode(m, pane) ELSE m

\* The ".row-hidden" and ".pane-minimized TextArea" rules of the
\* application CSS and styles.display: is the widget laid out at all.
Displayed(w) ==
    LET pane == _walk_to_pane(w)
    IN  /\ pane # None
        /\ display[root_pane] # "none"
        /\ display[pane] # "none"
        /\ ~pane_row_hidden[pane]
        /\ _get_pane_row(pane) # NoRow => ~row_hidden[_get_pane_row(pane)]
        /\ w \in TextAreas => ~pane_minimized[pane] /\ ~pane_minimized[root_pane]

(***************************************************************************)
(* Model selection: core/models.py, core/llm_client.py and the handlers of *)
(* gui/llm_pane.py as operators on the records llm_client and llm_pane.    *)
(***************************************************************************)
\* settings.DEFAULT_MODEL
DEFAULT_MODEL == "openai:gpt-4o-mini"

\* models.AVAILABLE_MODELS, one model of each provider that needs a key.
AVAILABLE_MODELS ==
    [model_name \in {DEFAULT_MODEL, "anthropic:claude-3-haiku-20240307"} |->
        [name |-> model_name,
         provider |-> IF model_name = DEFAULT_MODEL THEN "openai"
                      ELSE "anthropic"]]

\* get_model_config; the record without a name stands for None.
get_model_config(model_name) ==
    IF model_name \in DOMAIN AVAILABLE_MODELS THEN AVAILABLE_MODELS[model_name]
    ELSE [name |-> None, provider |-> None]

\* LLMClient.set_model: the client after the call and the value returned.
set_model(c, model_name, keys) ==
    LET config == get_model_config(model_name)
        d == [c EXCEPT !.current_model = model_name, !.model_config = config]
    IN  IF config.name = None THEN [llm_client |-> c, result |-> FALSE]
        ELSE IF config.provider = "openai" THEN
            IF ~keys["openai"] THEN [llm_client |-> d, result |-> FALSE]
            ELSE [llm_client |-> [d EXCEPT !._openai_client = TRUE],
                  result |-> TRUE]
        ELSE IF config.provider = "anthropic" THEN
            IF ~keys["anthropic"] THEN [llm_client |-> d, result |-> FALSE]
            ELSE [llm_client |-> [d EXCEPT !._anthropic_client = TRUE],
                  result |-> TRUE]
        ELSE [llm_client |-> d, result |-> TRUE]

\* The model checks at the head of action_send_to_llm: the client after
\* them, and whether the send goes on.
select_model(c, selected_model, keys) ==
    IF selected_model \in {None, ""} THEN [llm_client |-> c, result |-> FALSE]
    ELSE IF c.current_model # selected_model
         THEN set_model(c, selected_model, keys)
    ELSE [llm_client |-> c, result |-> TRUE]

\* send_message / stream_message do not raise before they call the
\* provider: a model is set and the client of its provider exists.
ClientReady(c) ==
    \/ c.model_config.provider = "openai" /\ c._openai_client
    \/ c.model_config.provider = "anthropic" /\ c._anthropic_client

\* LLMSelectionPane
enter_select_mode(p) == [p EXCEPT !.select_mode = TRUE, !.staged_model = None]

stage_current_selection(p, highlighted) ==
    IF highlighted # None THEN [p EXCEPT !.staged_model = highlighted] ELSE p

\* _confirm_and_exit after the confirmation screen was dismissed with
\* result.
_confirm_and_exit(p, result) ==
    [p EXCEPT !.selected_model = IF result THEN p.staged_model ELSE @,
              !.select_mode = FALSE, !.staged_model = None,
              !.confirming = FALSE]

\* An exit that saves the staged model without asking.
action_exit_select_mode_saves(p) ==
    IF ~p.select_mode THEN p
    ELSE [p EXCEPT !.selected_model = IF p.staged_model # None
                                       THEN p.staged_model ELSE @,
                   !.select_mode = FALSE, !.staged_model = None]

\* action_exit_select_mode; confirming: _confirm_and_exit has been started
\* and waits for its screen.
action_exit_select_mode(p) ==
    IF ~p.select_mode THEN p
    ELSE IF p.staged_model # None /\ p.staged_model # p.selected_model
         THEN [p EXCEPT !.confirming = TRUE]
    ELSE [p EXCEPT !.select_mode = FALSE, !.staged_model = None]

on_option_list_option_selected(p, option) ==
    IF ~p.select_mode /\ option # None THEN [p EXCEPT !.selected_model = option]
    ELSE p

\* The client after LLMClient.__init__, the selector after on_mount with
\* one of the given contents of the selected-model file, and one of the
\* given configurations of the API keys.
InitModel(selections, keys) ==
    /\ llm_client = [current_model |-> None,
                     model_config |-> get_model_config(None),
                     _openai_client |-> FALSE, _anthropic_client |-> FALSE]
    /\ llm_pane \in {[selected_model |-> s, select_mode |-> FALSE,
                       staged_model |-> None, confirming |-> FALSE] :
                            s \in selections}
    /\ api_key \in keys

(***************************************************************************)
(* Initial state: after __init__ and on_mount.                             *)
(***************************************************************************)
\* Empty storage files, the reactive defaults of ResponsePane and the
\* default of settings.ENABLE_STREAMING.
InitText ==
    /\ content = [pane \in EditablePanes |-> <<>>]
    /\ stored = [pane \in EditablePanes |-> <<>>]
    /\ response_text = <<>>
    /\ status = "Ready"
    /\ streaming_enabled = TRUE

\* No worker has been started; no history file yet, and the default of
\* settings.MAX_HISTORY_ITEMS.
InitTurns ==
    /\ tasks = [t \in Tasks |-> NoTask]
    /\ turns = <<>>
    /\ MAX_HISTORY_ITEMS = DEFAULT_MAX_HISTORY_ITEMS
    /\ turns_before = <<>>
    /\ turns_added = <<>>
    /\ recent = [count |-> 0, turns |-> <<>>]

Init ==
    /\ pane_states = [pane \in Panes |-> NORMAL]
    /\ maximized_pane = None
    /\ row_hidden = [idx \in Rows |-> FALSE]
    /\ pane_row_hidden = [pane \in Panes |-> FALSE]
    /\ pane_minimized = [pane \in Panes |-> FALSE]
    /\ display = [pane \in Panes |-> "block"]
    /\ row_height = [idx \in Rows |-> "1fr"]
    /\ focused = root_pane
    /\ edit_mode = [pane \in EditablePanes |-> FALSE]
    /\ last_action = [op |-> "on_mount", pane |-> None]
    /\ maximized_before = None
    /\ edit_mode_before = [pane \in EditablePanes |-> FALSE]
    /\ steps = 0
    /\ InitText
    /\ InitTurns
    /\ InitModel({DEFAULT_MODEL}, {[provider \in {"openai", "anthropic"} |-> TRUE]})

\* The same state, with the command counter set so that MaxModeSteps
\* commands are left.
InitMode ==
    /\ pane_states = [pane \in Panes |-> NORMAL]
    /\ maximized_pane = None
    /\ row_hidden = [idx \in Rows |-> FALSE]
    /\ pane_row_hidden = [pane \in Panes |-> FALSE]
    /\ pane_minimized = [pane \in Panes |-> FALSE]
    /\ display = [pane \in Panes |-> "block"]
    /\ row_height = [idx \in Rows |-> "1fr"]
    /\ focused = root_pane
    /\ edit_mode = [pane \in EditablePanes |-> FALSE]
    /\ last_action = [op |-> "on_mount", pane |-> None]
    /\ maximized_before = None
    /\ edit_mode_before = [pane \in EditablePanes |-> FALSE]
    /\ steps = MaxSteps - MaxModeSteps
    /\ InitText
    /\ InitTurns
    /\ InitModel({DEFAULT_MODEL}, {[provider \in {"openai", "anthropic"} |-> TRUE]})

\* The same state, with the command counter set so that MaxKeySteps
\* commands are left.
InitKeys ==
    /\ pane_states = [pane \in Panes |-> NORMAL]
    /\ maximized_pane = None
    /\ row_hidden = [idx \in Rows |-> FALSE]
    /\ pane_row_hidden = [pane \in Panes |-> FALSE]
    /\ pane_minimized = [pane \in Panes |-> FALSE]
    /\ display = [pane \in Panes |-> "block"]
    /\ row_height = [idx \in Rows |-> "1fr"]
    /\ focused = root_pane
    /\ edit_mode = [pane \in EditablePanes |-> FALSE]
    /\ last_action = [op |-> "on_mount", pane |-> None]
    /\ maximized_before = None
    /\ edit_mode_before = [pane \in EditablePanes |-> FALSE]
    /\ steps = MaxSteps - MaxKeySteps
    /\ InitText
    /\ InitTurns
    /\ InitModel({DEFAULT_MODEL}, {[provider \in {"openai", "anthropic"} |-> TRUE]})

(***************************************************************************)
(* Actions: one per command handler.                                       *)
(***************************************************************************)
\* Every handler counts as one command and records itself.
Count(op, pane) ==
    /\ steps < MaxSteps
    /\ last_action' = [op |-> op, pane |-> pane]
    /\ maximized_before' = maximized_pane
    /\ edit_mode_before' = edit_mode
    /\ steps' = steps + 1

\* A layout, focus or mode command: none of these handlers writes a text,
\* starts a worker or touches the conversation history.
Record(op, pane) ==
    /\ Count(op, pane)
    /\ UNCHANGED <<textVars, tasks, historyVars, modelVars>>

FocusNext ==
    /\ CommitMode(set_focus(CurMode, action_focus_next(focused)))
    /\ Record("focus_next", None)
    /\ UNCHANGED layoutVars

FocusPrevious ==
    /\ CommitMode(set_focus(CurMode, action_focus_previous(focused)))
    /\ Record("focus_previous", None)
    /\ UNCHANGED layoutVars

ToggleMaximize ==
    /\ focused \notin TextAreas
    /\ Commit(action_toggle_maximize(Cur, _get_focused_pane(focused)))
    /\ Record("toggle_maximize", _get_focused_pane(focused))
    /\ UNCHANGED <<focused, edit_mode>>

ToggleMinimize ==
    /\ focused \notin TextAreas
    /\ Commit(action_toggle_minimize(Cur, _get_focused_pane(focused)))
    /\ Record("toggle_minimize", _get_focused_pane(focused))
    /\ UNCHANGED <<focused, edit_mode>>

IncreaseHeight ==
    /\ Commit(action_increase_height(Cur, _get_focused_pane(focused)))
    /\ Record("increase_height", _get_focused_pane(focused))
    /\ UNCHANGED <<focused, edit_mode>>

DecreaseHeight ==
    /\ Commit(action_decrease_height(Cur, _get_focused_pane(focused)))
    /\ Record("decrease_height", _get_focused_pane(focused))
    /\ UNCHANGED <<focused, edit_mode>>

HideAllChildren ==
    /\ Commit(hide_all_children(Cur))
    /\ Record("hide_all_children", None)
    /\ UNCHANGED <<focused, edit_mode>>

ShowAllChildren ==
    /\ Commit(show_all_children(Cur))
    /\ Record("show_all_children", None)
    /\ UNCHANGED <<focused, edit_mode>>

ResetLayout ==
    /\ Commit(action_reset_layout(Cur))
    /\ Record("reset_layout", None)
    /\ UNCHANGED <<focused, edit_mode>>

MenuHide ==
    \E pane \in Panes :
        /\ Commit(_hide_highlighted_pane(Cur, pane))
        /\ Record("hide", pane)
        /\ UNCHANGED <<focused, edit_mode>>

MenuUnhide ==
    \E pane \in Panes :
        /\ Commit(_unhide_highlighted_pane(Cur, pane))
        /\ Record("unhide", pane)
        /\ UNCHANGED <<focused, edit_mode>>

\* PaneMenuScreen._handle_pane_selection: a hidden pane is shown, a visible
\* one takes focus.
MenuSelectPane ==
    \E pane \in Panes :
        /\ IF display[pane] = "none"
           THEN /\ Commit([Cur EXCEPT !.display[pane] = "block"])
                /\ UNCHANGED <<focused, edit_mode>>
           ELSE /\ CommitMode(set_focus(CurMode, pane))
                /\ UNCHANGED layoutVars
        /\ Record("select_pane", pane)

Next ==
    \/ FocusNext
    \/ FocusPrevious
    \/ ToggleMaximize
    \/ ToggleMinimize
    \/ IncreaseHeight
    \/ DecreaseHeight
    \/ HideAllChildren
    \/ ShowAllChildren
    \/ ResetLayout
    \/ MenuHide
    \/ MenuUnhide
    \/ MenuSelectPane

Spec == Init /\ [][Next]_vars

\* The application driven by the focus and layout keys alone: tab,
\* shift+tab, m, n, ctrl+up and ctrl+down.
NextKeys ==
    \/ FocusNext
    \/ FocusPrevious
    \/ ToggleMaximize
    \/ ToggleMinimize
    \/ IncreaseHeight
    \/ DecreaseHeight

SpecKeys == InitKeys /\ [][NextKeys]_vars

\* The key "i" reaches EditablePane.on_key when the pane itself holds focus
\* (its text area, when focused, takes the key as text).
KeyI ==
    /\ focused \in EditablePanes
    /\ CommitMode(on_key(CurMode, focused, "i"))
    /\ Record("key_i", focused)
    /\ UNCHANGED layoutVars

\* The key escape runs the priority binding of the EditablePane that holds
\* focus or whose text area holds focus.
KeyEscape ==
    /\ _walk_to_pane(focused) \in EditablePanes
    /\ CommitMode(action_exit_edit_mode(CurMode, _walk_to_pane(focused)))
    /\ Record("key_escape", _walk_to_pane(focused))
    /\ UNCHANGED layoutVars

\* A mouse click gives focus to the text area of a pane directly.
FocusTextArea ==
    \E pane \in EditablePanes :
        /\ Displayed(content_widget(pane))
        /\ focused # content_widget(pane)
        /\ CommitMode(focus_content_widget(CurMode, pane))
        /\ Record("focus_text_area", pane)
        /\ UNCHANGED layoutVars

\* The widget holding focus is no longer displayed and loses focus, after
\* which self.focused is None.
FocusDropped ==
    /\ focused # None
    /\ ~Displayed(focused)
    /\ CommitMode(set_focus(CurMode, None))
    /\ Record("focus_dropped", _walk_to_pane(focused))
    /\ UNCHANGED layoutVars

NextMode ==
    \/ FocusNext
    \/ FocusPrevious
    \/ ToggleMaximize
    \/ ToggleMinimize
    \/ IncreaseHeight
    \/ DecreaseHeight
    \/ HideAllChildren
    \/ ShowAllChildren
    \/ ResetLayout
    \/ MenuHide
    \/ MenuUnhide
    \/ MenuSelectPane
    \/ KeyI
    \/ KeyEscape
    \/ FocusTextArea
    \/ FocusDropped

SpecMode == InitMode /\ [][NextMode]_vars

TypeOK ==
    /\ pane_states \in [Panes -> PaneState]
    /\ maximized_pane \in Panes \cup {None}
    /\ row_hidden \in [Rows -> BOOLEAN]
    /\ pane_row_hidden \in [Panes -> BOOLEAN]
    /\ pane_minimized \in [Panes -> BOOLEAN]
    /\ display \in [Panes -> {"block", "none"}]
    /\ row_height \in [Rows -> {"1fr", "2fr", "3fr"}]
    /\ focused \in Panes \cup TextAreas \cup {model_option_list, None}
    /\ edit_mode \in [EditablePanes -> BOOLEAN]
    /\ maximized_before \in Panes \cup {None}
    /\ edit_mode_before \in [EditablePanes -> BOOLEAN]
    /\ steps \in Int /\ steps <= MaxSteps
    /\ content \in [EditablePanes -> Texts]
    /\ stored \in [EditablePanes -> Texts]
    /\ response_text \in Seq(Tasks)
    /\ status \in {"Ready", "Cleared", "Streaming...",
                   "Waiting for response...", "Complete", "Error"}
    /\ \A t \in Tasks :
        /\ tasks[t].pc \in {"none", "scheduled", "streaming", "done", "failed"}
        /\ tasks[t].chunks \in 0..MaxChunks
    /\ streaming_enabled \in BOOLEAN
    /\ MAX_HISTORY_ITEMS \in Int
    /\ recent.count \in Int
    /\ llm_client.current_model \in DOMAIN AVAILABLE_MODELS \cup {None}
    /\ llm_pane.select_mode \in BOOLEAN /\ llm_pane.confirming \in BOOLEAN
    /\ api_key \in [{"openai", "anthropic"} -> BOOLEAN]

(***************************************************************************)
(* Conversation history (core/conversation.py).  A turn is the record of   *)
(* its prompts and its response; the timestamp and the model name of a     *)
(* ConversationTurn are never read by the history.                         *)
(***************************************************************************)
\* Number of history operations explored.
MaxHistorySteps == 4
\* Largest configured MAX_HISTORY_ITEMS and largest count explored.
MaxItems == 3
\* Longest list of turns in a history file or an imported file.
MaxFileTurns == 2
\* Distinct prompts of the turns explored.
MaxPrompts == 2

Min(a, b) == IF a < b THEN a ELSE b
Max(a, b) == IF a > b THEN a ELSE b

ConversationTurn(user_prompt, system_prompt, context, response) ==
    [user_prompt |-> user_prompt, system_prompt |-> system_prompt,
     context |-> context, response |-> response]
HistoryTurns ==
    {ConversationTurn(<<i>>, <<>>, <<>>, <<>>) : i \in 1..MaxPrompts}
TurnFiles == UNION {[1..n -> HistoryTurns] : n \in 0..MaxFileTurns}

\* The Python slice lst[-n:]: the start index -n counts from the end when
\* it is negative (clamped to the start of the list), and from the start
\* when it is zero or positive (clamped to the end of the list).
SliceFromMinus(lst, n) ==
    LET start == IF -n < 0 THEN Max(Len(lst) - n, 0) ELSE Min(-n, Len(lst))
    IN  SubSeq(lst, start + 1, Len(lst))

\* The last n elements of a list, for n >= 0.
LastN(lst, n) == SubSeq(lst, Len(lst) - Min(n, Len(lst)) + 1, Len(lst))

add_turn(h, turn, max_items) ==
    LET appended == Append(h, turn)
    IN  IF Len(appended) > max_items
        THEN SliceFromMinus(appended, max_items)
        ELSE appended

\* import_from_file; ok is FALSE when reading or parsing the file raises.
import_from_file(h, imported_turns, max_items, ok) ==
    IF ~ok THEN h
    ELSE LET extended == h \o imported_turns
         IN  IF Len(extended) > max_items
             THEN SliceFromMinus(extended, max_items)
             ELSE extended

get_recent_turns(h, count) == SliceFromMinus(h, count)

\* The history after __init__: the turns of the history file (loaded as
\* they are), under a configured limit.
InitHistory ==
    /\ pane_states = [pane \in Panes |-> NORMAL]
    /\ maximized_pane = None
    /\ row_hidden = [idx \in Rows |-> FALSE]
    /\ pane_row_hidden = [pane \in Panes |-> FALSE]
    /\ pane_minimized = [pane \in Panes |-> FALSE]
    /\ display = [pane \in Panes |-> "block"]
    /\ row_height = [idx \in Rows |-> "1fr"]
    /\ focused = root_pane
    /\ edit_mode = [pane \in EditablePanes |-> FALSE]
    /\ last_action = [op |-> "__init__", pane |-> None]
    /\ maximized_before = None
    /\ edit_mode_before = [pane \in EditablePanes |-> FALSE]
    /\ steps = MaxSteps - MaxHistorySteps
    /\ InitText
    /\ InitModel({DEFAULT_MODEL}, {[provider \in {"openai", "anthropic"} |-> TRUE]})
    /\ tasks = [t \in Tasks |-> NoTask]
    /\ turns \in TurnFiles
    /\ MAX_HISTORY_ITEMS \in 0..MaxItems
    /\ turns_before = <<>>
    /\ turns_added = <<>>
    /\ recent = [count |-> 0, turns |-> <<>>]

\* A history operation leaves the application's widgets alone.
HistoryStep(op) ==
    /\ Count(op, None)
    /\ UNCHANGED <<layoutVars, focused, edit_mode, textVars, tasks,
                   MAX_HISTORY_ITEMS, modelVars>>

AddTurn ==
    \E turn \in HistoryTurns :
        /\ turns' = add_turn(turns, turn, MAX_HISTORY_ITEMS)
        /\ turns_before' = turns
        /\ turns_added' = <<turn>>
        /\ HistoryStep("add_turn")
        /\ UNCHANGED recent

ImportFromFile ==
    \E imported_turns \in TurnFiles, ok \in BOOLEAN :
        /\ turns' = import_from_file(turns, imported_turns,
                                     MAX_HISTORY_ITEMS, ok)
        /\ turns_before' = turns
        /\ turns_added' = IF ok THEN imported_turns ELSE <<>>
        /\ HistoryStep(IF ok THEN "import_from_file" ELSE "import_failed")
        /\ UNCHANGED recent

GetRecentTurns ==
    \E count \in 0..MaxItems :
        /\ recent' = [count |-> count, turns |-> get_recent_turns(turns, count)]
        /\ HistoryStep("get_recent_turns")
        /\ UNCHANGED <<turns, turns_before, turns_added>>

NextHistory ==
    \/ AddTurn
    \/ ImportFromFile
    \/ GetRecentTurns

SpecHistory == InitHistory /\ [][NextHistory]_vars

(***************************************************************************)
(* Keys, texts and requests.  The application state is a record of the     *)
(* layout record, the mode record, the texts, the workers and the turns of *)
(* the conversation history; a handler is an operator on it.               *)
(***************************************************************************)
\* Number of keys explored with a request running.
MaxSendSteps == 3
\* Number of keys and mouse clicks explored on the texts.
MaxTextSteps == 3

CurApp ==
    [layout |-> Cur, mode |-> CurMode,
     text |-> [content |-> content, stored |-> stored,
               response_text |-> response_text, status |-> status,
               streaming_enabled |-> streaming_enabled],
     tasks |-> tasks, turns |-> turns]

CommitApp(a) ==
    /\ Commit(a.layout)
    /\ CommitMode(a.mode)
    /\ content' = a.text.content
    /\ stored' = a.text.stored
    /\ response_text' = a.text.response_text
    /\ status' = a.text.status
    /\ streaming_enabled' = a.text.streaming_enabled
    /\ tasks' = a.tasks
    /\ turns' = a.turns

\* ResponsePane
set_status(a, st) == [a EXCEPT !.text.status = st]

\* A clear_response that also cancels the workers.
clear_response_cancelling(a) ==
    [set_status([a EXCEPT !.text.response_text = <<>>], "Cleared") EXCEPT
        !.tasks = [t \in Tasks |->
            IF a.tasks[t].pc \in {"scheduled", "streaming"}
            THEN [a.tasks[t] EXCEPT !.pc = "cancelled"] ELSE a.tasks[t]]]

clear_response(a) ==
    set_status([a EXCEPT !.text.response_text = <<>>], "Cleared")

set_response(a, text) == [a EXCEPT !.text.response_text = text]

\* An append that gives the response pane the focus.
append_response_chunk_focusing(a, chunk) ==
    [a EXCEPT !.text.response_text = @ \o chunk,
              !.mode = set_focus(a.mode, response_pane)]

append_response_chunk(a, chunk) == [a EXCEPT !.text.response_text = @ \o chunk]

show_error(a) == set_status([a EXCEPT !.text.response_text = <<>>], "Error")

\* EditablePane.save_content and clear_content
save_content(a, pane) == [a EXCEPT !.text.stored[pane] = a.text.content[pane]]

clear_content(a, pane) ==
    save_content([a EXCEPT !.text.content[pane] = <<>>], pane)

\* An action_clear_content that does not look at the mode.
action_clear_content_any_mode(a, pane) == clear_content(a, pane)

action_clear_content(a, pane) ==
    IF ~a.mode.edit_mode[pane] THEN clear_content(a, pane) ELSE a

\* LLMManagerApp.action_clear_response
action_clear_response(a) == clear_response(a)

\* TextArea: a printable key typed into the focused text area.
insert(a, pane, char) == [a EXCEPT !.text.content[pane] = Append(@, char)]

\* str.strip()
strip(text) ==
    LET kept == {i \in 1..Len(text) : text[i] # " "}
    IN  IF kept = {} THEN <<>>
        ELSE SubSeq(text, CHOOSE i \in kept : \A j \in kept : i <= j,
                          CHOOSE i \in kept : \A j \in kept : i >= j)

\* run_worker: the coroutine is handed to the event loop.
run_worker(a, streaming, user_prompt, system_prompt, context) ==
    LET t == CHOOSE t \in Tasks :
                /\ a.tasks[t].pc = "none"
                /\ \A u \in Tasks : a.tasks[u].pc = "none" => t <= u
    IN  [a EXCEPT !.tasks[t] = [pc |-> "scheduled", streaming |-> streaming,
                                chunks |-> 0, full_response |-> <<>>,
                                user_prompt |-> user_prompt,
                                system_prompt |-> system_prompt,
                                context |-> context]]

\* A send that clears the previous response before it checks anything.
action_send_to_llm_clears_first(a, model_ok) ==
    LET user_prompt == a.text.content[user_prompt_pane]
        cleared == clear_response(a)
    IN  IF ~model_ok THEN cleared
        ELSE IF strip(user_prompt) = <<>> THEN cleared
        ELSE run_worker(cleared, a.text.streaming_enabled,
                        user_prompt, a.text.content[system_prompt_pane],
                        a.text.content[context_pane])

\* LLMManagerApp.action_send_to_llm; model_ok is FALSE when no model is
\* selected or set_model fails.
action_send_to_llm(a, model_ok) ==
    LET user_prompt == a.text.content[user_prompt_pane]
    IN  IF ~model_ok THEN a
        ELSE IF strip(user_prompt) = <<>> THEN a
        ELSE run_worker(clear_response(a), a.text.streaming_enabled,
                        user_prompt, a.text.content[system_prompt_pane],
                        a.text.content[context_pane])

\* A streaming worker that reads the prompts from the panes when it saves
\* the turn.
_send_streaming_reads_panes(a, t, outcome) ==
    LET started == IF a.tasks[t].pc = "scheduled"
                   THEN set_status(a, "Streaming...") ELSE a
        task == started.tasks[t]
    IN  IF outcome = "chunk" THEN
            [append_response_chunk(started, <<t>>) EXCEPT
                !.tasks[t].pc = "streaming",
                !.tasks[t].chunks = @ + 1,
                !.tasks[t].full_response = @ \o <<t>>]
        ELSE IF outcome = "end" THEN
            [set_status(started, "Complete") EXCEPT
                !.tasks[t].pc = "done",
                !.turns = add_turn(@,
                    ConversationTurn(a.text.content[user_prompt_pane],
                                     a.text.content[system_prompt_pane],
                                     a.text.content[context_pane],
                                     task.full_response),
                    MAX_HISTORY_ITEMS)]
        ELSE
            [show_error(started) EXCEPT !.tasks[t].pc = "failed"]

\* One run of the worker t between two suspensions.  outcome is what the
\* client does next: it yields a chunk, ends the stream (or returns the
\* whole response), or raises.
_send_streaming(a, t, outcome) ==
    LET started == IF a.tasks[t].pc = "scheduled"
                   THEN set_status(a, "Streaming...") ELSE a
        task == started.tasks[t]
    IN  IF outcome = "chunk" THEN
            [append_response_chunk(started, <<t>>) EXCEPT
                !.tasks[t].pc = "streaming",
                !.tasks[t].chunks = @ + 1,
                !.tasks[t].full_response = @ \o <<t>>]
        ELSE IF outcome = "end" THEN
            [set_status(started, "Complete") EXCEPT
                !.tasks[t].pc = "done",
                !.turns = add_turn(@,
                    ConversationTurn(task.user_prompt, task.system_prompt,
                                     task.context, task.full_response),
                    MAX_HISTORY_ITEMS)]
        ELSE
            [show_error(started) EXCEPT !.tasks[t].pc = "failed"]

_send_non_streaming(a, t, outcome) ==
    LET started == set_status(a, "Waiting for response...")
        response == <<t>>
    IN  IF outcome = "end" THEN
            [set_status(set_response(started, response), "Complete") EXCEPT
                !.tasks[t].pc = "done",
                !.tasks[t].full_response = response,
                !.turns = add_turn(@,
                    ConversationTurn(a.tasks[t].user_prompt,
                                     a.tasks[t].system_prompt,
                                     a.tasks[t].context, response),
                    MAX_HISTORY_ITEMS)]
        ELSE
            [show_error(started) EXCEPT !.tasks[t].pc = "failed"]

(***************************************************************************)
(* Key dispatch (Textual): the priority bindings of the focus chain are    *)
(* checked from the application down; a key no priority binding takes goes *)
(* to the key handlers of the focused widget and of its ancestors until    *)
(* one stops it; a key that nobody stopped runs the first binding found    *)
(* from the focused widget up to the application.                          *)
(***************************************************************************)
App == "app"

Binding(key, action, priority) ==
    [key |-> key, action |-> action, priority |-> priority]

App_BINDINGS ==
    {Binding("escape", "show_pane_menu", FALSE),
     Binding("tab", "focus_next", TRUE),
     Binding("shift+tab", "focus_previous", TRUE),
     Binding("ctrl+j", "send_to_llm", TRUE),
     Binding("c", "clear_response", FALSE),
     Binding("m", "toggle_maximize", FALSE),
     Binding("n", "toggle_minimize", FALSE),
     Binding("ctrl+up", "increase_height", FALSE),
     Binding("ctrl+down", "decrease_height", FALSE),
     Binding("ctrl+h", "hide_all_children", FALSE),
     Binding("ctrl+shift+h", "show_all_children", FALSE),
     Binding("ctrl+r", "reset_layout", FALSE)}

EditablePane_BINDINGS ==
    {Binding("escape", "exit_edit_mode", TRUE),
     Binding("c", "clear_content", FALSE)}

LLMSelectionPane_BINDINGS ==
    {Binding("escape", "exit_select_mode", FALSE)}

BINDINGS(w) ==
    IF w = App THEN App_BINDINGS
    ELSE IF w \in EditablePanes THEN EditablePane_BINDINGS
    ELSE IF w = llm_selection_pane THEN LLMSelectionPane_BINDINGS
    ELSE {}

Keys == {b.key : b \in App_BINDINGS} \cup {"i", "a"}
\* Keys that a text area takes as text.
Printable == {"c", "m", "n", "i", "a"}

\* The focused widget, its ancestors, the application.
RECURSIVE _binding_chain(_)
_binding_chain(w) ==
    IF w = None THEN <<App>> ELSE <<w>> \o _binding_chain(Parent(w))

Reverse(seq) == [i \in 1..Len(seq) |-> seq[Len(seq) + 1 - i]]

\* The first binding of the key with the given priority along the chain
\* (from the application down for the priority bindings), as the sequence
\* of the actions it runs.
_check_bindings(f, key, priority) ==
    LET chain == IF priority THEN Reverse(_binding_chain(f))
                 ELSE _binding_chain(f)
        hits == {i \in 1..Len(chain) :
                    \E b \in BINDINGS(chain[i]) :
                        b.key = key /\ b.priority = priority}
    IN  IF hits = {} THEN <<>>
        ELSE LET i == CHOOSE i \in hits : \A j \in hits : i <= j
                 b == CHOOSE b \in BINDINGS(chain[i]) :
                        b.key = key /\ b.priority = priority
             IN  <<[widget |-> chain[i], action |-> b.action]>>

\* What the key handler of one widget does with a key: EditableTextArea
\* ._on_key, EditablePane.on_key.  Every handler that acts stops the key.
KeyHandler(w, m, key) ==
    IF w \in TextAreas THEN
        IF key = "escape" THEN "exit_edit_mode"
        ELSE IF key \in Printable THEN "insert"
        ELSE None
    ELSE IF w \in EditablePanes THEN
        IF ~m.edit_mode[w] /\ key = "i" THEN "enter_edit_mode"
        ELSE IF m.edit_mode[w] /\ key = "escape" THEN "exit_edit_mode"
        ELSE None
    ELSE None

\* The key bubbles from the focused widget to the first handler acting.
_forward_event(f, m, key) ==
    LET chain == _binding_chain(f)
        hits == {i \in 1..Len(chain) : KeyHandler(chain[i], m, key) # None}
    IN  IF hits = {} THEN <<>>
        ELSE LET i == CHOOSE i \in hits : \A j \in hits : i <= j
             IN  <<[widget |-> chain[i],
                    action |-> KeyHandler(chain[i], m, key)]>>

\* A dispatch in which no stage consumes the key.
dispatch_all_stages(m, key) ==
    _check_bindings(m.focused, key, TRUE)
        \o _forward_event(m.focused, m, key)
        \o _check_bindings(m.focused, key, FALSE)

\* A dispatch without the priority pass.
dispatch_no_priority(m, key) ==
    LET handled == _forward_event(m.focused, m, key)
    IN  IF handled # <<>> THEN handled
        ELSE _check_bindings(m.focused, key, FALSE)

\* The actions one key event runs, in order.
dispatch(m, key) ==
    LET priority == _check_bindings(m.focused, key, TRUE)
        handled == _forward_event(m.focused, m, key)
    IN  IF priority # <<>> THEN priority
        ELSE IF handled # <<>> THEN handled
        ELSE _check_bindings(m.focused, key, FALSE)

\* One action of one widget.
run_action(a, widget, action, key, model_ok) ==
    LET m == a.mode
        owner == _get_focused_pane(m.focused)
    IN  CASE action = "focus_next" ->
                [a EXCEPT !.mode = set_focus(m, action_focus_next(m.focused))]
          [] action = "focus_previous" ->
                [a EXCEPT !.mode =
                    set_focus(m, action_focus_previous(m.focused))]
          [] action = "send_to_llm" -> action_send_to_llm(a, model_ok)
          [] action = "clear_response" -> action_clear_response(a)
          [] action = "clear_content" -> action_clear_content(a, widget)
          [] action = "insert" -> insert(a, Parent(widget), "a")
          [] action = "enter_edit_mode" ->
                [a EXCEPT !.mode = on_key(m, widget, key)]
          [] action = "exit_edit_mode" ->
                [a EXCEPT !.mode =
                    IF widget \in TextAreas
                    THEN exit_edit_mode(m, Parent(widget))
                    ELSE action_exit_edit_mode(m, widget)]
          [] action = "toggle_maximize" ->
                [a EXCEPT !.layout = action_toggle_maximize(@, owner)]
          [] action = "toggle_minimize" ->
                [a EXCEPT !.layout = action_toggle_minimize(@, owner)]
          [] action = "increase_height" ->
                [a EXCEPT !.layout = action_increase_height(@, owner)]
          [] action = "decrease_height" ->
                [a EXCEPT !.layout = action_decrease_height(@, owner)]
          [] action = "hide_all_children" ->
                [a EXCEPT !.layout = hide_all_children(@)]
          [] action = "show_all_children" ->
                [a EXCEPT !.layout = show_all_children(@)]
          [] action = "reset_layout" ->
                [a EXCEPT !.layout = action_reset_layout(@)]
          [] OTHER -> a

RECURSIVE run_actions(_, _, _, _)
run_actions(a, actions, key, model_ok) ==
    IF actions = <<>> THEN a
    ELSE run_actions(run_action(a, Head(actions).widget,
                                Head(actions).action, key, model_ok),
                     Tail(actions), key, model_ok)

\* The application after one key event.
key_press(a, key, model_ok) ==
    run_actions(a, dispatch(a.mode, key), key, model_ok)

\* The state at the start of a session of n keys: a user prompt file that
\* is empty, blank or not, the two other storage files with some text, the
\* configured streaming setting, and one of the given contents of the
\* selected-model file and configurations of the API keys.
InitSend(n, selections, keys) ==
    /\ pane_states = [pane \in Panes |-> NORMAL]
    /\ maximized_pane = None
    /\ row_hidden = [idx \in Rows |-> FALSE]
    /\ pane_row_hidden = [pane \in Panes |-> FALSE]
    /\ pane_minimized = [pane \in Panes |-> FALSE]
    /\ display = [pane \in Panes |-> "block"]
    /\ row_height = [idx \in Rows |-> "1fr"]
    /\ focused = root_pane
    /\ edit_mode = [pane \in EditablePanes |-> FALSE]
    /\ last_action = [op |-> "on_mount", pane |-> None]
    /\ maximized_before = None
    /\ edit_mode_before = [pane \in EditablePanes |-> FALSE]
    /\ steps = MaxSteps - n
    /\ \E user_prompt \in {<<>>, <<" ">>, <<"a">>} :
            stored = [pane \in EditablePanes |->
                        IF pane = user_prompt_pane THEN user_prompt
                        ELSE <<"a">>]
    /\ content = stored
    /\ response_text = <<>>
    /\ status = "Ready"
    /\ streaming_enabled \in BOOLEAN
    /\ InitTurns
    /\ InitModel(selections, keys)

\* One key event.  The pane menu that escape opens is a modal screen, the
\* menu actions stand for it, and no key reaches the application while the
\* confirmation screen of the selector is open; a worker is started while
\* a slot is free and a text is typed while it is shorter than MaxLen.
KeyEvent(key) ==
    \E actions \in {dispatch(CurMode, key)} :
        \E checked \in {IF key = "ctrl+j"
                         THEN select_model(llm_client, llm_pane.selected_model,
                                           api_key)
                         ELSE [llm_client |-> llm_client, result |-> TRUE]} :
            /\ ~llm_pane.confirming
            /\ llm_client' = checked.llm_client
            /\ UNCHANGED <<llm_pane, api_key>>
            /\ \A i \in 1..Len(actions) :
                /\ actions[i].action # "show_pane_menu"
                /\ actions[i].action = "send_to_llm" =>
                        \E t \in Tasks : tasks[t].pc = "none"
                /\ actions[i].action = "insert" =>
                        Len(content[Parent(actions[i].widget)]) < MaxLen
            /\ \E a \in {run_actions(CurApp, actions, key, checked.result)} :
                    CommitApp(a)
            /\ Count(IF actions = <<>> THEN "none" ELSE actions[1].action,
                     IF actions = <<>> THEN None ELSE actions[1].widget)
            /\ UNCHANGED <<MAX_HISTORY_ITEMS, turns_before, turns_added,
                           recent>>

\* The keys of the request and of the layout of the panes.
KeyPress ==
    \E key \in {"tab", "ctrl+j", "c", "m", "n", "ctrl+h"} : KeyEvent(key)

\* Number of requests started in a session on the texts.
MaxTextTasks == 1

\* The keys of the texts and of the modes.
KeyPressText ==
    /\ \E key \in {"escape", "tab", "shift+tab", "ctrl+j", "c", "i", "a"} :
        KeyEvent(key)
    /\ Cardinality({t \in Tasks : tasks'[t].pc # "none"}) <= MaxTextTasks

\* A mouse click on the frame of an editable pane gives focus to the pane
\* itself.
FocusPane ==
    \E pane \in EditablePanes :
        /\ Displayed(pane)
        /\ focused # pane
        /\ CommitMode(set_focus(CurMode, pane))
        /\ Record("focus_pane", pane)
        /\ UNCHANGED layoutVars

\* Escape opens the pane menu when no pane of the focus chain binds it;
\* the highlighted pane is then hidden.
MenuHideFromKey ==
    /\ dispatch(CurMode, "escape")
        = <<[widget |-> App, action |-> "show_pane_menu"]>>
    /\ MenuHide

\* A step of a worker is no command.
WorkerStep(a, op) ==
    /\ CommitApp(a)
    /\ last_action' = [op |-> op, pane |-> None]
    /\ maximized_before' = maximized_pane
    /\ edit_mode_before' = edit_mode
    /\ UNCHANGED <<steps, MAX_HISTORY_ITEMS, turns_before, turns_added,
                   recent, modelVars>>

\* The event loop runs the streaming worker t up to its next sleep or to
\* its end.
StreamStep(t, outcome) ==
    /\ tasks[t].pc \in {"scheduled", "streaming"}
    /\ tasks[t].streaming
    /\ outcome = "chunk" => tasks[t].chunks < MaxChunks
    /\ tasks[t].pc = "scheduled" /\ outcome # "error" => ClientReady(llm_client)
    /\ \E a \in {_send_streaming(CurApp, t, outcome)} :
            WorkerStep(a, "_send_streaming")

SendStreaming(t) ==
    \E outcome \in {"chunk", "end", "error"} : StreamStep(t, outcome)

\* The event loop runs the non-streaming worker t, which never suspends.
SendNonStreaming(t) ==
    /\ tasks[t].pc = "scheduled"
    /\ ~tasks[t].streaming
    /\ \E outcome \in {"end", "error"} :
        /\ outcome # "error" => ClientReady(llm_client)
        /\ \E a \in {_send_non_streaming(CurApp, t, outcome)} :
                WorkerStep(a, "_send_non_streaming")

NextSend ==
    \/ KeyPress
    \/ MenuHideFromKey
    \/ \E t \in Tasks : SendStreaming(t)
    \/ \E t \in Tasks : SendNonStreaming(t)

\* A session with the default model and its key.
SpecSend ==
    /\ InitSend(MaxSendSteps, {DEFAULT_MODEL},
                {[provider \in {"openai", "anthropic"} |-> TRUE]})
    /\ [][NextSend]_vars

NextText ==
    \/ KeyPressText
    \/ FocusTextArea
    \/ FocusPane
    \/ \E t \in Tasks : SendStreaming(t)
    \/ \E t \in Tasks : SendNonStreaming(t)

\* The same session with the keys of the texts and the mouse.
SpecText ==
    /\ InitSend(MaxTextSteps, {DEFAULT_MODEL},
                {[provider \in {"openai", "anthropic"} |-> TRUE]})
    /\ [][NextText]_vars

(***************************************************************************)
(* The model selector.  The key enter reaches LLMSelectionPane.on_key from *)
(* the pane and from its option list, escape runs the pane's binding, and  *)
(* a mouse click on an option posts OptionSelected.                        *)
(***************************************************************************)
\* Number of keys and mouse clicks explored on the model selector.
MaxModelSteps == 4

\* A handler of the selector: the selector is then p and w holds focus.
SelectorStep(op, p, w) ==
    /\ llm_pane' = p
    /\ CommitMode(set_focus(CurMode, w))
    /\ Count(op, llm_selection_pane)
    /\ UNCHANGED <<layoutVars, textVars, tasks, historyVars, llm_client,
                   api_key>>

\* The key enter on the selector, or a mouse click on it: on_key and
\* on_click call enter_select_mode.
EnterSelectMode ==
    /\ ~llm_pane.confirming /\ ~llm_pane.select_mode
    /\ \/ _get_focused_pane(focused) = llm_selection_pane
       \/ Displayed(llm_selection_pane)
    /\ SelectorStep("enter_select_mode", enter_select_mode(llm_pane),
                    model_option_list)

\* The key enter in select mode stages the highlighted option.
StageCurrentSelection ==
    /\ ~llm_pane.confirming /\ llm_pane.select_mode
    /\ _get_focused_pane(focused) = llm_selection_pane
    /\ \E highlighted \in DOMAIN AVAILABLE_MODELS \cup {None} :
        SelectorStep("stage_current_selection",
                     stage_current_selection(llm_pane, highlighted), focused)

\* The key escape in select mode: the selector leaves select mode and
\* takes focus, or opens the confirmation screen.
ExitSelectMode ==
    /\ ~llm_pane.confirming /\ llm_pane.select_mode
    /\ _get_focused_pane(focused) = llm_selection_pane
    /\ \E p \in {action_exit_select_mode(llm_pane)} :
        SelectorStep("exit_select_mode", p,
                     IF p.confirming THEN focused ELSE llm_selection_pane)

\* The confirmation screen is dismissed with yes or no.
ConfirmAndExit ==
    /\ llm_pane.confirming
    /\ \E result \in BOOLEAN :
        SelectorStep(IF result THEN "confirm_yes" ELSE "confirm_no",
                     _confirm_and_exit(llm_pane, result), llm_selection_pane)

\* A mouse click on an option of the list.
OptionSelected ==
    /\ ~llm_pane.confirming
    /\ Displayed(llm_selection_pane)
    /\ \E option \in DOMAIN AVAILABLE_MODELS :
        SelectorStep("option_selected",
                     on_option_list_option_selected(llm_pane, option),
                     model_option_list)

NextModel ==
    \/ EnterSelectMode
    \/ StageCurrentSelection
    \/ ExitSelectMode
    \/ ConfirmAndExit
    \/ OptionSelected
    \/ KeyEvent("ctrl+j")
    \/ \E t \in Tasks : SendStreaming(t)
    \/ \E t \in Tasks : SendNonStreaming(t)

\* A session of model selections and requests, from an empty selected-model
\* file or the default one, and any configuration of the API keys.
SpecModel ==
    /\ InitSend(MaxModelSteps, {"", DEFAULT_MODEL},
                [{"openai", "anthropic"} -> BOOLEAN])
    /\ [][NextModel]_vars

\* Number of keys and mouse clicks explored under the fair event loop.
MaxFairSteps == 2

\* The event loop runs every worker that is ready.
FairSpecSend ==
    /\ InitSend(MaxFairSteps, {"", DEFAULT_MODEL},
                {[provider \in {"openai", "anthropic"} |-> TRUE]})
    /\ [][NextSend]_vars
    /\ \A t \in Tasks : WF_vars(SendStreaming(t))
    /\ \A t \in Tasks : WF_vars(SendNonStreaming(t))

(***************************************************************************)
(* Properties.  A command acts on the pane owning focus, so a property of  *)
(* a command is stated of every reachable state and its focus owner, with  *)
(* the handler applied to the current layout record.                       *)
(***************************************************************************)
FocusOwner == _get_focused_pane(focused)

OtherRows(pane) ==
    IF _get_pane_row(pane) = NoRow THEN {}
    ELSE {idx \in Rows : idx # _get_pane_row(pane)}

Siblings(pane) ==
    IF _get_pane_row(pane) = NoRow THEN {}
    ELSE RowChildren(_get_pane_row(pane)) \ {pane}

RECURSIVE increase_n(_, _, _)
increase_n(s, pane, n) ==
    IF n = 0 THEN s ELSE increase_n(action_increase_height(s, pane), pane, n - 1)

RECURSIVE decrease_n(_, _, _)
decrease_n(s, pane, n) ==
    IF n = 0 THEN s ELSE decrease_n(action_decrease_height(s, pane), pane, n - 1)

\* What toggle_maximize is said to leave alone over a pair of calls.
GlobalLayout(s) ==
    [maximized_pane |-> s.maximized_pane, row_hidden |-> s.row_hidden,
     pane_row_hidden |-> s.pane_row_hidden, display |-> s.display,
     row_height |-> s.row_height]

\* C1: in every reachable state at most one pane has state Maximized.
C1_AtMostOneMaximized ==
    Cardinality({pane \in Panes : pane_states[pane] = MAXIMIZED}) <= 1

\* C2: in every reachable state a non-null maximized pane id names a pane
\* whose state is Maximized, the Root pane included.
C2_MaximizedIdNamesMaximizedPane ==
    maximized_pane # None => pane_states[maximized_pane] = MAXIMIZED

\* C3: in every reachable state no pane, child or Root, is both the globally
\* maximized pane and in state Minimized.
C3_MaximizedPaneNotMinimized ==
    \A pane \in Panes :
        ~(maximized_pane = pane /\ pane_states[pane] = MINIMIZED)

\* C4 as stated: from any reachable state, toggle_maximize twice on the
\* focused pane gives back the maximized id, the maximize-hidden flags of
\* rows and panes, the hidden flags and the row heights.
C4_ToggleMaximizeTwiceAnyState ==
    LET p == FocusOwner
    IN  p # None =>
            GlobalLayout(action_toggle_maximize(action_toggle_maximize(Cur, p), p))
                = GlobalLayout(Cur)

\* C4 amended: from any reachable state in which no pane is maximized,
\* toggle_maximize twice on the focused pane gives back the maximized id
\* (null), every maximize-hidden flag, every hidden flag and every row
\* height.
C4_ToggleMaximizeTwiceFromNone ==
    LET p == FocusOwner
    IN  (p # None /\ maximized_pane = None) =>
            GlobalLayout(action_toggle_maximize(action_toggle_maximize(Cur, p), p))
                = GlobalLayout(Cur)

\* C4 witness: a second toggle_maximize on a child pane has just restored
\* the pane it had maximized, in a layout with a raised row and hidden
\* panes.
C4_Witness ==
    /\ last_action.op = "toggle_maximize"
    /\ last_action.pane \in ChildPanes
    /\ maximized_before = last_action.pane
    /\ maximized_pane = None
    /\ \E idx \in Rows : row_height[idx] # "1fr"
    /\ \E pane \in Panes : display[pane] = "none"

C6_FiveIncreasesReachMaximized ==
    \A p \in Panes :
        (FocusOwner = p /\ pane_states[p] = MINIMIZED) =>
            /\ increase_n(Cur, p, 5).pane_states[p] = MAXIMIZED
            /\ increase_n(Cur, p, 6).pane_states[p] = MINIMIZED

\* C6 amended: from Minimized, four increase_size calls on a focused
\* non-Root pane end with it Maximized (and the maximized pane), and the
\* fifth wraps it to Minimized with no pane maximized; the Root pane, which
\* has no row, only returns to Normal and is Normal after five calls.
C6_FourIncreasesReachMaximized ==
    \A p \in Panes :
        (FocusOwner = p /\ pane_states[p] = MINIMIZED) =>
            IF p # root_pane
            THEN /\ increase_n(Cur, p, 1).pane_states[p] = NORMAL
                 /\ increase_n(Cur, p, 2).pane_states[p] = NORMAL
                 /\ increase_n(Cur, p, 3).pane_states[p] = NORMAL
                 /\ increase_n(Cur, p, 4).pane_states[p] = MAXIMIZED
                 /\ increase_n(Cur, p, 4).maximized_pane = p
                 /\ increase_n(Cur, p, 5).pane_states[p] = MINIMIZED
                 /\ increase_n(Cur, p, 5).maximized_pane = None
            ELSE /\ increase_n(Cur, p, 4).pane_states[p] = NORMAL
                 /\ increase_n(Cur, p, 5).pane_states[p] = NORMAL

\* C6 witness: increase_size has just wrapped a focused child pane from
\* Maximized to Minimized, where the ladder starts.
C6_Witness ==
    /\ last_action.op = "increase_height"
    /\ FocusOwner \in ChildPanes
    /\ last_action.pane = FocusOwner
    /\ maximized_before = FocusOwner
    /\ pane_states[FocusOwner] = MINIMIZED
    /\ pane_minimized[FocusOwner]

\* C7: from Maximized, successive decrease_size calls on the focused pane
\* put its row at 3x, 2x, 1x with the pane Normal, then make the pane
\* Minimized, and the fifth call makes it Maximized again.
C7_DecreaseLadderFromMaximized ==
    \A p \in Panes :
        (FocusOwner = p /\ pane_states[p] = MAXIMIZED) =>
            LET row_idx == _get_pane_row(p)
                d(n) == decrease_n(Cur, p, n)
            IN  /\ row_idx # NoRow
                /\ d(1).pane_states[p] = NORMAL /\ d(1).row_height[row_idx] = "3fr"
                /\ d(2).pane_states[p] = NORMAL /\ d(2).row_height[row_idx] = "2fr"
                /\ d(3).pane_states[p] = NORMAL /\ d(3).row_height[row_idx] = "1fr"
                /\ d(4).pane_states[p] = MINIMIZED
                /\ d(5).pane_states[p] = MAXIMIZED

\* C8: after toggle_maximize on a focused pane p, issued while no pane was
\* maximized, every row but p's and every sibling of p is hidden, p is the
\* maximized pane and p's state is Maximized.
C8_ToggleMaximizeFromNoneMaximizes ==
    (last_action.op = "toggle_maximize" /\ maximized_before = None) =>
        LET p == last_action.pane
        IN  /\ \A idx \in Rows : idx # _get_pane_row(p) => row_hidden[idx]
            /\ \A sib \in Siblings(p) : pane_row_hidden[sib]
            /\ maximized_pane = p
            /\ pane_states[p] = MAXIMIZED

\* C9: toggle_maximize on the focused pane p while another pane q is the
\* maximized pane leaves p the maximized pane and q not Maximized, p's row
\* visible, and exactly the other rows and p's siblings maximize-hidden
\* (for the Root pane, which has no row and no sibling, nothing).
C9_SwitchRestoresThenMaximizes ==
    \A p \in Panes :
        (FocusOwner = p /\ maximized_pane # None /\ maximized_pane # p) =>
            LET q == maximized_pane
                t == action_toggle_maximize(Cur, p)
            IN  /\ t.maximized_pane = p
                /\ t.pane_states[q] # MAXIMIZED
                /\ _get_pane_row(p) # NoRow => ~t.row_hidden[_get_pane_row(p)]
                /\ {idx \in Rows : t.row_hidden[idx]} = OtherRows(p)
                /\ {pane \in Panes : t.pane_row_hidden[pane]} = Siblings(p)

\* C9 witness: toggle_maximize has just moved the maximization from a pane
\* of the first row to the response pane, so that the first row is hidden
\* now and was shown before.
C9_Witness ==
    /\ last_action.op = "toggle_maximize"
    /\ last_action.pane = response_pane
    /\ maximized_before \in RowChildren(0)
    /\ maximized_pane = response_pane
    /\ pane_states[maximized_before] = NORMAL
    /\ row_hidden[0] /\ row_hidden[1] /\ ~row_hidden[2]
    /\ \A pane \in Panes : ~pane_row_hidden[pane]

\* C10: toggle_minimize on the focused pane p changes nothing at all when p
\* is the maximized pane; otherwise p goes from Minimized to Normal and
\* from Normal to Minimized, and every other pane's state, the maximized
\* id, the row heights, the hidden and the maximize-hidden flags stay.
C10_ToggleMinimizeEffect ==
    \A p \in Panes :
        FocusOwner = p =>
            LET t == action_toggle_minimize(Cur, p)
            IN  IF maximized_pane = p THEN t = Cur
                ELSE /\ t.pane_states[p] \in {NORMAL, MINIMIZED}
                     /\ pane_states[p] = MINIMIZED => t.pane_states[p] = NORMAL
                     /\ pane_states[p] = NORMAL => t.pane_states[p] = MINIMIZED
                     /\ \A q \in Panes \ {p} : t.pane_states[q] = pane_states[q]
                     /\ t.maximized_pane = maximized_pane
                     /\ t.row_height = row_height
                     /\ t.display = display
                     /\ t.row_hidden = row_hidden
                     /\ t.pane_row_hidden = pane_row_hidden

\* C10 witness: toggle_minimize has just been refused on the maximized
\* pane, while another pane is Minimized.
C10_Witness ==
    /\ last_action.op = "toggle_minimize"
    /\ last_action.pane \in Panes
    /\ maximized_before = last_action.pane
    /\ maximized_pane = last_action.pane
    /\ pane_states[last_action.pane] = MAXIMIZED
    /\ \E q \in Panes \ {last_action.pane} :
            pane_states[q] = MINIMIZED /\ pane_minimized[q]

\* C11: when toggle_maximize on the focused pane p restores p, which an
\* earlier toggle_maximize had maximized, p is Minimized again if it was
\* Minimized when it was maximized, and Normal otherwise.
C11_RestoreGivesBackMinimized ==
    \A p \in Panes :
        (FocusOwner = p /\ maximized_pane # p) =>
            LET maximized == action_toggle_maximize(Cur, p)
                restored == action_toggle_maximize(maximized, p)
            IN  /\ maximized.maximized_pane = p
                /\ restored.maximized_pane = None
                /\ restored.pane_states[p] =
                        IF pane_states[p] = MINIMIZED THEN MINIMIZED ELSE NORMAL

\* C12: a restore of the focused pane p, which is the maximized pane or
\* has state Maximized, through toggle_maximize, increase_size or
\* decrease_size on p, leaves every other pane that was Minimized in state
\* Minimized.
C12_RestoreKeepsOtherMinimized ==
    \A p \in Panes :
        (FocusOwner = p /\ (maximized_pane = p \/ pane_states[p] = MAXIMIZED)) =>
            \A q \in Panes \ {p} :
                pane_states[q] = MINIMIZED =>
                    /\ action_toggle_maximize(Cur, p).pane_states[q] = MINIMIZED
                    /\ action_increase_height(Cur, p).pane_states[q] = MINIMIZED
                    /\ action_decrease_height(Cur, p).pane_states[q] = MINIMIZED

\* C12 witness: toggle_maximize has just restored the pane it had
\* maximized while another pane is Minimized.
C12_Witness ==
    /\ last_action.op = "toggle_maximize"
    /\ last_action.pane \in ChildPanes
    /\ maximized_before = last_action.pane
    /\ maximized_pane = None
    /\ pane_states[last_action.pane] = NORMAL
    /\ \E q \in Panes \ {last_action.pane} :
            pane_states[q] = MINIMIZED /\ pane_minimized[q]

\* C13 as stated: the restore made by toggle_maximize on the maximized
\* pane clears the maximized id and puts every row at 1x.
C13_RestoreResetsRowHeights ==
    \A p \in Panes :
        (FocusOwner = p /\ maximized_pane = p) =>
            LET t == action_toggle_maximize(Cur, p)
            IN  /\ t.maximized_pane = None
                /\ \A idx \in Rows : t.row_height[idx] = "1fr"

\* C13 amended: the restore made by toggle_maximize on the maximized pane
\* clears the maximized id and every maximize-hidden flag, and leaves every
\* row at the height it had.
C13_RestoreKeepsRowHeights ==
    \A p \in Panes :
        (FocusOwner = p /\ maximized_pane = p) =>
            LET t == action_toggle_maximize(Cur, p)
            IN  /\ t.maximized_pane = None
                /\ \A idx \in Rows : ~t.row_hidden[idx]
                /\ \A pane \in Panes : ~t.pane_row_hidden[pane]
                /\ t.row_height = row_height

\* C13 witness: toggle_maximize has just restored the maximized pane and a
\* row is still at a raised height.
C13_Witness ==
    /\ last_action.op = "toggle_maximize"
    /\ last_action.pane \in Panes
    /\ maximized_before = last_action.pane
    /\ maximized_pane = None
    /\ \E idx \in Rows : row_height[idx] = "3fr"
    /\ \A idx \in Rows : ~row_hidden[idx]

\* C14: hide, unhide, hide_all_children and show_all_children change
\* nothing but hidden flags; the bulk operations set the flag of each of
\* the five child panes and leave the Root pane's; hide and unhide set the
\* flag of their pane only; so a Maximized pane is still Maximized after
\* hide_all_children, with every child pane hidden.
C14_VisibilityChangesOnlyHiddenFlags ==
    LET SameButDisplay(s) == [s EXCEPT !.display = display] = Cur
        hidden == hide_all_children(Cur)
        shown == show_all_children(Cur)
    IN  /\ SameButDisplay(hidden) /\ SameButDisplay(shown)
        /\ \A pane \in ChildPanes :
                hidden.display[pane] = "none" /\ shown.display[pane] = "block"
        /\ hidden.display[root_pane] = display[root_pane]
        /\ shown.display[root_pane] = display[root_pane]
        /\ \A pane \in Panes :
                LET h == _hide_highlighted_pane(Cur, pane)
                    u == _unhide_highlighted_pane(Cur, pane)
                IN  /\ SameButDisplay(h) /\ SameButDisplay(u)
                    /\ h.display[pane] = "none" /\ u.display[pane] = "block"
                    /\ \A q \in Panes \ {pane} :
                            h.display[q] = display[q] /\ u.display[q] = display[q]
        /\ \A A \in Panes :
                pane_states[A] = MAXIMIZED => hidden.pane_states[A] = MAXIMIZED

\* C14 witness: hide_all_children has just run with a child pane
\* maximized; the five child panes are hidden, the Root pane is not, and
\* the pane is still Maximized and the maximized pane.
C14_Witness ==
    /\ last_action.op = "hide_all_children"
    /\ maximized_pane \in ChildPanes
    /\ maximized_before = maximized_pane
    /\ pane_states[maximized_pane] = MAXIMIZED
    /\ \A pane \in ChildPanes : display[pane] = "none"
    /\ display[root_pane] = "block"
    /\ \E idx \in Rows : row_hidden[idx]

(***************************************************************************)
(* Focus order and edit mode, stated of SpecMode.                          *)
(***************************************************************************)
RECURSIVE focus_next_n(_, _)
focus_next_n(f, n) ==
    IF n = 0 THEN f ELSE focus_next_n(action_focus_next(f), n - 1)

\* The pane after and before a pane in the fixed order of the pane list.
FocusOrderNext(pane) ==
    LET i == IndexOf(_get_pane_list, pane)
    IN  _get_pane_list[IF i = Len(_get_pane_list) THEN 1 ELSE i + 1]

FocusOrderPrevious(pane) ==
    LET i == IndexOf(_get_pane_list, pane)
    IN  _get_pane_list[IF i = 1 THEN Len(_get_pane_list) ELSE i - 1]

C16_NoOwnerMeansRoot ==
    focused \notin (Panes \cup TextAreas) =>
        /\ _get_pane_list[_find_current_pane_index(focused) + 1] = root_pane
        /\ action_focus_next(focused) = FocusOrderNext(root_pane)
        /\ action_focus_previous(focused) = FocusOrderPrevious(root_pane)
        /\ _get_focused_pane(focused) = root_pane
        /\ action_toggle_maximize(Cur, _get_focused_pane(focused))
                = action_toggle_maximize(Cur, root_pane)
        /\ action_toggle_minimize(Cur, _get_focused_pane(focused))
                = action_toggle_minimize(Cur, root_pane)
        /\ action_increase_height(Cur, _get_focused_pane(focused))
                = action_increase_height(Cur, root_pane)
        /\ action_decrease_height(Cur, _get_focused_pane(focused))
                = action_decrease_height(Cur, root_pane)

\* C17: a focus_next or focus_previous step gives focus to the pane after
\* or before the focus owner in the pane list (the Root pane standing for
\* a missing owner), whatever is hidden or minimized, and changes no pane
\* state, hidden or maximize-hidden flag, row height, maximized id or edit
\* mode.
C17_FocusMoveIgnoresLayout ==
    [][LET owner == IF _walk_to_pane(focused) = None THEN root_pane
                    ELSE _walk_to_pane(focused)
       IN  /\ last_action'.op = "focus_next" =>
                /\ focused' = FocusOrderNext(owner)
                /\ UNCHANGED <<layoutVars, edit_mode>>
           /\ last_action'.op = "focus_previous" =>
                /\ focused' = FocusOrderPrevious(owner)
                /\ UNCHANGED <<layoutVars, edit_mode>>]_vars

\* C17 witness: focus_next has just given focus to a pane that is hidden,
\* while a pane is in edit mode.
C17_Witness ==
    /\ last_action.op = "focus_next"
    /\ focused \in Panes
    /\ display[focused] = "none"
    /\ \E pane \in EditablePanes : edit_mode[pane]

\* C18: for an editable pane that holds focus in command mode, the key "i"
\* gives edit mode with focus on the pane's text area, and the key escape
\* after it gives command mode with focus on the pane.
C18_EnterThenExitEditMode ==
    \A p \in EditablePanes :
        (focused = p /\ ~edit_mode[p]) =>
            LET entered == on_key(CurMode, p, "i")
                exited == action_exit_edit_mode(entered, p)
            IN  /\ entered.edit_mode[p]
                /\ entered.focused = content_widget(p)
                /\ ~exited.edit_mode[p]
                /\ exited.focused = p

\* C18 witness: the key escape has just taken a pane from edit mode to
\* command mode with focus on the pane, and no pane is in edit mode.
C18_Witness ==
    /\ last_action.op = "key_escape"
    /\ last_action.pane \in EditablePanes
    /\ edit_mode_before[last_action.pane]
    /\ ~edit_mode[last_action.pane]
    /\ focused = last_action.pane
    /\ \A pane \in EditablePanes : ~edit_mode[pane]

\* C19: when the text area of an editable pane takes focus directly, the
\* pane is in edit mode with focus on the text area, the state the key "i"
\* gives from command mode; so it is again after the key escape.
C19_TextAreaFocusEntersEditMode ==
    /\ last_action.op = "focus_text_area" =>
            /\ edit_mode[last_action.pane]
            /\ focused = content_widget(last_action.pane)
    /\ \A p \in EditablePanes :
            /\ ~edit_mode[p] =>
                    focus_content_widget(CurMode, p)
                        = on_key(set_focus(CurMode, p), p, "i")
            /\ edit_mode[p] =>
                    LET exited == action_exit_edit_mode(CurMode, p)
                        again == focus_content_widget(exited, p)
                    IN  /\ ~exited.edit_mode[p]
                        /\ again.edit_mode[p]
                        /\ again.focused = content_widget(p)

\* C19 witness: the text area of a pane has just taken focus directly and
\* put the pane, which was in command mode, in edit mode, while another
\* pane entered before is still in edit mode.
C19_Witness ==
    /\ last_action.op = "focus_text_area"
    /\ ~edit_mode_before[last_action.pane]
    /\ edit_mode[last_action.pane]
    /\ focused = content_widget(last_action.pane)
    /\ \E q \in EditablePanes \ {last_action.pane} : edit_mode[q]

\* C20: a pane that was in edit mode when a command arrived is in command
\* mode after it only if the command was the key escape delivered to that
\* pane; focus moves, loss of focus, layout and visibility commands leave
\* it in edit mode.
C20_OnlyEscapeLeavesEditMode ==
    \A p \in EditablePanes :
        (edit_mode_before[p] /\ ~edit_mode[p]) =>
            (last_action.op = "key_escape" /\ last_action.pane = p)

\* C20 witness: the pane container of a pane in edit mode has just lost
\* focus to another pane through focus_next, and the pane is still in edit
\* mode.
C20_Witness ==
    /\ last_action.op = "focus_next"
    /\ \E p \in EditablePanes :
            /\ edit_mode_before[p] /\ edit_mode[p]
            /\ focused = FocusOrderNext(p)

(***************************************************************************)
(* C28: for any configured MAX_HISTORY_ITEMS limit, after every add_turn   *)
(* or import_from_file the history holds at most that many turns, and the  *)
(* turns kept are the most recently added ones in their original order.    *)
(***************************************************************************)
C28_HistoryWithinAnyLimit ==
    last_action.op \in {"add_turn", "import_from_file"} =>
        /\ Len(turns) <= MAX_HISTORY_ITEMS
        /\ turns = LastN(turns_before \o turns_added, MAX_HISTORY_ITEMS)

(***************************************************************************)
(* C29: get_recent_turns(count) returns, for every count >= 0 and every    *)
(* history, the last min(count, len(turns)) turns in their original order, *)
(* so never more than count turns.                                         *)
(***************************************************************************)
C29_RecentTurnsAreLastCount ==
    last_action.op = "get_recent_turns" =>
        /\ recent.turns = LastN(turns, recent.count)
        /\ Len(recent.turns) <= recent.count

(***************************************************************************)
(* C27: increase_size or decrease_size applied to a Normal, non-maximized  *)
(* pane whose row is at 1x, 2x or 3x, the steps that enter Minimized or    *)
(* Maximized excluded, changes only the height level of that pane's row:   *)
(* every pane state, every other row height, every hidden flag and the     *)
(* maximized id stay as they were.                                         *)
(***************************************************************************)
C27_ResizeChangesOnlyOwnRowHeight ==
    LET pane == FocusOwner
        row_idx == _get_pane_row(pane)
    IN  (/\ pane # None
         /\ pane_states[pane] = NORMAL
         /\ maximized_pane # pane
         /\ row_idx # NoRow)
        => /\ row_height[row_idx] = "1fr" =>
                action_increase_height(Cur, pane)
                    = [Cur EXCEPT !.row_height[row_idx] = "2fr"]
           /\ row_height[row_idx] = "2fr" =>
                /\ action_increase_height(Cur, pane)
                    = [Cur EXCEPT !.row_height[row_idx] = "3fr"]
                /\ action_decrease_height(Cur, pane)
                    = [Cur EXCEPT !.row_height[row_idx] = "1fr"]
           /\ row_height[row_idx] = "3fr" =>
                action_decrease_height(Cur, pane)
                    = [Cur EXCEPT !.row_height[row_idx] = "2fr"]

\* increase_size has raised the row of a Normal pane to 3fr while another
\* pane carries a maximize-hidden flag.
C27_Witness ==
    LET pane == FocusOwner
    IN  /\ pane \in ChildPanes
        /\ pane_states[pane] = NORMAL
        /\ row_height[_get_pane_row(pane)] = "3fr"
        /\ last_action.op = "increase_height"
        /\ \E other \in ChildPanes \ {pane} : pane_row_hidden[other]

(***************************************************************************)
(* C30: in every reachable state, while some pane p is the globally        *)
(* maximized pane, p itself is not maximize-hidden and p's row is not      *)
(* hidden, also when the maximization was reached through increase_size    *)
(* from 3x or decrease_size from Minimized while another pane was          *)
(* maximized.                                                              *)
(***************************************************************************)
C30_MaximizedPaneIsDisplayed ==
    maximized_pane # None =>
        /\ ~pane_row_hidden[maximized_pane]
        /\ _get_pane_row(maximized_pane) # NoRow =>
                ~row_hidden[_get_pane_row(maximized_pane)]

\* A worker that has been started and has not finished.
Running(t) == tasks[t].pc \in {"scheduled", "streaming"}

\* The texts of the panes, by pane.
Contents(a) ==
    [pane \in EditablePanes \cup {response_pane} |->
        IF pane = response_pane THEN a.text.response_text
        ELSE <<a.text.content[pane], a.text.stored[pane]>>]

(***************************************************************************)
(* C21: the clear command issued on an Editable pane whose mode is Edit is *)
(* a no-op: the pane's content and stored content are unchanged, and no    *)
(* other state changes.  Stated of the action and of the key "c" arriving  *)
(* at the pane.                                                            *)
(***************************************************************************)
C21_ClearInEditModeIsNoOp ==
    \A pane \in EditablePanes :
        edit_mode[pane] =>
            /\ action_clear_content(CurApp, pane) = CurApp
            /\ focused = pane =>
                /\ dispatch(CurMode, "c")
                    = <<[widget |-> pane, action |-> "clear_content"]>>
                /\ key_press(CurApp, "c", TRUE) = CurApp

\* The key "c" has arrived at a pane in Edit mode that holds a text.
C21_Witness ==
    /\ last_action.op = "clear_content"
    /\ last_action.pane \in EditablePanes
    /\ edit_mode_before[last_action.pane]
    /\ edit_mode[last_action.pane]
    /\ content[last_action.pane] # <<>>
    /\ stored[last_action.pane] # <<>>

(***************************************************************************)
(* C22: the clear-content command changes only the content of the pane     *)
(* that currently owns focus: whichever pane (Root, Editable, Selector,    *)
(* Output) is the focus owner when the clear key arrives, no other pane's  *)
(* content is modified.                                                    *)
(***************************************************************************)
C22_ClearChangesOnlyFocusOwner ==
    LET after == key_press(CurApp, "c", TRUE)
    IN  \A pane \in (EditablePanes \cup {response_pane}) \ {FocusOwner} :
            Contents(after)[pane] = Contents(CurApp)[pane]

(***************************************************************************)
(* C23: focus-next, focus-previous and send are dispatched regardless of   *)
(* mode: with the focus owner in Edit mode and real focus on its inner     *)
(* surface, a focus-next/focus-previous event still moves the focus owner  *)
(* one position in FocusOrder and a send event still starts a request      *)
(* (given a model, a user prompt and a free worker), without changing that *)
(* pane's mode or content.                                                 *)
(***************************************************************************)
C23_ReservedKeysIgnoreMode ==
    \A pane \in EditablePanes :
        (edit_mode[pane] /\ focused = content_widget(pane)) =>
            LET next == key_press(CurApp, "tab", TRUE)
                prev == key_press(CurApp, "shift+tab", TRUE)
                send == key_press(CurApp, "ctrl+j", TRUE)
            IN  /\ next = [CurApp EXCEPT !.mode.focused = FocusOrderNext(pane)]
                /\ prev = [CurApp EXCEPT
                                !.mode.focused = FocusOrderPrevious(pane)]
                /\ dispatch(CurMode, "ctrl+j")
                    = <<[widget |-> App, action |-> "send_to_llm"]>>
                /\ (\E t \in Tasks : tasks[t].pc = "none") =>
                    /\ send.mode = CurMode
                    /\ send.text.content = content
                    /\ send.text.stored = stored
                    /\ send.layout = Cur
                    /\ strip(content[user_prompt_pane]) # <<>> =>
                        \E t \in Tasks :
                            /\ tasks[t].pc = "none"
                            /\ send.tasks[t].pc = "scheduled"
                            /\ send.tasks[t].user_prompt
                                = content[user_prompt_pane]

\* A request was started from the text area of a pane in Edit mode, and
\* the next key moved the focus on from that text area; the pane is still
\* in Edit mode.
C23_Witness ==
    /\ last_action.op = "focus_next"
    /\ \E pane \in EditablePanes :
        /\ edit_mode_before[pane]
        /\ edit_mode[pane]
        /\ focused = FocusOrderNext(pane)
        /\ content[pane] # <<>>
    /\ \E t \in Tasks : tasks[t].pc = "scheduled"

(***************************************************************************)
(* C24: each input event triggers at most one action: one escape key event *)
(* delivered while an Editable pane is in Edit mode causes exactly one     *)
(* Edit-to-Command transition and does not additionally open the pane      *)
(* menu, and one clear key event clears at most one pane.                  *)
(***************************************************************************)
C24_OneActionPerKey ==
    /\ \A key \in Keys : Len(dispatch(CurMode, key)) <= 1
    /\ \A pane \in EditablePanes :
        (edit_mode[pane] /\ FocusOwner = pane) =>
            /\ dispatch(CurMode, "escape")
                = <<[widget |-> pane, action |-> "exit_edit_mode"]>>
            /\ key_press(CurApp, "escape", TRUE)
                = [CurApp EXCEPT !.mode.edit_mode[pane] = FALSE,
                                 !.mode.focused = pane]
    /\ LET after == key_press(CurApp, "c", TRUE)
       IN  Cardinality({pane \in EditablePanes \cup {response_pane} :
                Contents(after)[pane] # Contents(CurApp)[pane]}) <= 1

\* Escape has arrived at the text area of a pane in Edit mode and has put
\* the pane in Command mode.
C24_Witness ==
    /\ last_action.op = "exit_edit_mode"
    /\ last_action.pane \in EditablePanes
    /\ edit_mode_before[last_action.pane]
    /\ ~edit_mode[last_action.pane]
    /\ focused = last_action.pane

(***************************************************************************)
(* C25: every step of the background request task (setting the status,     *)
(* appending a chunk, setting the full response, completing, reporting an  *)
(* error) leaves every pane's state, hidden flag and mode, every row's     *)
(* height level, the maximized id and the focus owner unchanged, for any   *)
(* interleaving with keyboard events.                                      *)
(***************************************************************************)
C25_WorkerLeavesLayoutFocusAndMode ==
    [][(\E t \in Tasks : Running(t) /\ tasks'[t] # tasks[t])
        => UNCHANGED <<layoutVars, focused, edit_mode>>]_vars

\* A worker has appended a chunk while a pane other than the response pane
\* owns the focus and the layout is no longer the initial one.
C25_Witness ==
    /\ last_action.op = "_send_streaming"
    /\ response_text # <<>>
    /\ FocusOwner \notin {root_pane, response_pane}
    /\ \/ maximized_pane # None
       \/ \E pane \in Panes : pane_states[pane] = MINIMIZED

C31_MinimizedClassIffMinimizedState ==
    \A pane \in Panes : pane_minimized[pane] <=> pane_states[pane] = MINIMIZED

(***************************************************************************)
(* C32: in every reachable state, if maximized_pane is None then no row    *)
(* and no pane carries the "row-hidden" class: every handler that clears   *)
(* maximized_pane also removes all hiding done for the maximization.       *)
(***************************************************************************)
C32_NoMaximizedMeansNothingHidden ==
    maximized_pane = None =>
        /\ \A idx \in Rows : ~row_hidden[idx]
        /\ \A pane \in Panes : ~pane_row_hidden[pane]

\* A maximized child pane whose maximization hid rows and a sibling has
\* just been given up by decrease_size, and nothing is maximized any more.
C32_Witness ==
    /\ maximized_before \in ChildPanes
    /\ maximized_pane = None
    /\ last_action = [op |-> "decrease_height", pane |-> maximized_before]
    /\ Siblings(maximized_before) # {}

\* What the pair increase_size, decrease_size is said to give back: the
\* pane's state, the maximized pane and the height of the pane's row.
SizeOf(s, pane) ==
    <<s.pane_states[pane], s.maximized_pane, s.row_height[_get_pane_row(pane)]>>

(***************************************************************************)
(* C34: for the focused non-Root pane p of any reachable state,            *)
(* increase_size(p) followed immediately by decrease_size(p) restores p's  *)
(* state, the maximized pane and the height of p's row.                    *)
(***************************************************************************)
C34_IncreaseThenDecreaseAnyState ==
    FocusOwner \in ChildPanes =>
        SizeOf(action_decrease_height(action_increase_height(Cur, FocusOwner),
                                      FocusOwner), FocusOwner)
            = SizeOf(Cur, FocusOwner)

\* C34 as it holds: the pair restores the three values unless p is
\* Minimized in a row that is not at 1fr (the way up from Minimized puts
\* the row at 1fr), or p is raised from 3fr to Maximized while it is not
\* Normal or another pane is the maximized one (the way down from Maximized
\* leaves p Normal and no pane maximized).
C34_IncreaseThenDecreaseRestores ==
    /\ FocusOwner \in ChildPanes
    /\ pane_states[FocusOwner] = MINIMIZED /\ maximized_pane # FocusOwner =>
            row_height[_get_pane_row(FocusOwner)] = "1fr"
    /\ /\ pane_states[FocusOwner] # MINIMIZED
       /\ maximized_pane # FocusOwner
       /\ row_height[_get_pane_row(FocusOwner)] = "3fr"
       => pane_states[FocusOwner] = NORMAL /\ maximized_pane = None
    => SizeOf(action_decrease_height(action_increase_height(Cur, FocusOwner),
                                     FocusOwner), FocusOwner)
        = SizeOf(Cur, FocusOwner)

\* The focused child pane is Normal in a row that increase_size has just
\* put at 3fr, no pane is maximized, and the next increase_size maximizes
\* it: the pair goes up to Maximized and comes back down to 3fr.
C34_Witness ==
    /\ FocusOwner \in ChildPanes
    /\ last_action = [op |-> "increase_height", pane |-> FocusOwner]
    /\ pane_states[FocusOwner] = NORMAL
    /\ maximized_pane = None
    /\ row_height[_get_pane_row(FocusOwner)] = "3fr"
    /\ action_increase_height(Cur, FocusOwner).maximized_pane = FocusOwner
    /\ action_decrease_height(action_increase_height(Cur, FocusOwner),
                              FocusOwner).maximized_pane = None

(***************************************************************************)
(* C33: in every reachable state, if an EditablePane is the focus owner    *)
(* and its mode is Edit, then the widget holding focus is the pane's text  *)
(* area and not the pane container, also after the pane was left with      *)
(* focus_next in Edit mode and entered again with focus_previous.          *)
(***************************************************************************)
C33_EditModeFocusOnTextArea ==
    \A pane \in EditablePanes :
        FocusOwner = pane /\ edit_mode[pane] => focused = content_widget(pane)

(***************************************************************************)
(* C37: a send command that is rejected (no model selected, the model      *)
(* cannot be initialised, or the user prompt is empty or white space)      *)
(* starts no background task, leaves the text of the response pane as it   *)
(* is and adds no turn to the conversation history.  Stated of the handler *)
(* and of the key ctrl+j in every reachable state.                         *)
(***************************************************************************)
C37_RejectedSendChangesNothing ==
    \A model_ok \in BOOLEAN :
        ~model_ok \/ strip(content[user_prompt_pane]) = <<>> =>
            /\ action_send_to_llm(CurApp, model_ok) = CurApp
            /\ LET a == key_press(CurApp, "ctrl+j", model_ok)
               IN  /\ a.tasks = tasks
                   /\ a.text.response_text = response_text
                   /\ a.text.status = status
                   /\ a.turns = turns

\* A send has just been rejected while the response pane shows the text of
\* an earlier request.
C37_Witness ==
    /\ last_action.op = "send_to_llm"
    /\ response_text # <<>>
    /\ status = "Complete"
    /\ Len(turns) = 1
    /\ \E t \in Tasks : tasks[t].pc = "none"

\* The worker t has just finished without error / with an error.
Completes(t) == tasks[t].pc # "done" /\ tasks'[t].pc = "done"
Fails(t) == tasks[t].pc # "failed" /\ tasks'[t].pc = "failed"

(***************************************************************************)
(* C35: when a streaming request task completes successfully, the text of  *)
(* the response pane equals the full response the task records in the      *)
(* conversation history for its request, whatever keys (clear, send,       *)
(* layout commands) were interleaved with its chunk appends.               *)
(***************************************************************************)
C35_PaneShowsRecordedResponse ==
    [][\A t \in Tasks :
        Completes(t) /\ tasks[t].streaming =>
            /\ turns' # <<>>
            /\ turns'[Len(turns')].response = tasks'[t].full_response
            /\ response_text' = tasks'[t].full_response]_vars

(***************************************************************************)
(* C36: at most one background request task is in flight at any time; a    *)
(* send issued while an earlier request is still streaming does not give   *)
(* two tasks that append chunks to the response pane concurrently.         *)
(***************************************************************************)
C36_AtMostOneTaskInFlight ==
    Cardinality({t \in Tasks : Running(t)}) <= 1

(***************************************************************************)
(* C38: a request task appends exactly one conversation turn when it       *)
(* completes without error and none when it fails, and the turn holds the  *)
(* user prompt, the system prompt and the context captured when send was   *)
(* issued, even if the contents of those panes changed while the request   *)
(* was in flight.  No other step adds a turn.                              *)
(***************************************************************************)
C38_OneTurnPerCompletedTask ==
    [][/\ \A t \in Tasks :
            /\ tasks[t].pc = "none" /\ tasks'[t].pc # "none" =>
                /\ tasks'[t].user_prompt = content[user_prompt_pane]
                /\ tasks'[t].system_prompt = content[system_prompt_pane]
                /\ tasks'[t].context = content[context_pane]
            /\ tasks[t].pc # "none" =>
                /\ tasks'[t].user_prompt = tasks[t].user_prompt
                /\ tasks'[t].system_prompt = tasks[t].system_prompt
                /\ tasks'[t].context = tasks[t].context
            /\ Completes(t) =>
                turns' = Append(turns,
                    ConversationTurn(tasks[t].user_prompt,
                                     tasks[t].system_prompt, tasks[t].context,
                                     tasks'[t].full_response))
            /\ Fails(t) => turns' = turns
       /\ (\A t \in Tasks : ~Completes(t)) => turns' = turns]_vars

\* A request has completed and its turn holds the user prompt of the
\* moment of the send, while the user prompt pane has been cleared since.
C38_Witness ==
    /\ \E t \in Tasks : tasks[t].pc = "done"
    /\ Len(turns) = 1
    /\ turns[1].user_prompt # <<>>
    /\ content[user_prompt_pane] = <<>>
    /\ turns[1].system_prompt = content[system_prompt_pane]

(***************************************************************************)
(* C39: LLMClient.set_model leaves current_model and model_config as they  *)
(* were whenever it returns False (unknown model name or missing API key), *)
(* so that a later send compares the selected model with the last model    *)
(* that was initialised successfully.                                      *)
(***************************************************************************)
C39_FailedSetModelKeepsModel ==
    \A model_name \in DOMAIN AVAILABLE_MODELS \cup {"", "unknown:model"} :
        LET r == set_model(llm_client, model_name, api_key)
        IN  ~r.result =>
                /\ r.llm_client.current_model = llm_client.current_model
                /\ r.llm_client.model_config = llm_client.model_config

(***************************************************************************)
(* C40: while the selector is in select mode, selected_model changes only  *)
(* when the exit confirmation for a staged model is accepted, and then to  *)
(* the staged model; when the confirmation is declined, or nothing         *)
(* different was staged, selected_model is unchanged; and every exit       *)
(* leaves select_mode false and staged_model empty.                        *)
(***************************************************************************)
C40_SelectModeChangesModelOnConfirm ==
    [][llm_pane.select_mode =>
        /\ llm_pane'.selected_model # llm_pane.selected_model =>
            /\ llm_pane.confirming
            /\ last_action'.op = "confirm_yes"
            /\ llm_pane'.selected_model = llm_pane.staged_model
        /\ last_action'.op = "confirm_no" =>
            llm_pane'.selected_model = llm_pane.selected_model
        /\ /\ last_action'.op = "exit_select_mode"
           /\ llm_pane.staged_model \in {None, llm_pane.selected_model}
           => /\ llm_pane'.selected_model = llm_pane.selected_model
              /\ ~llm_pane'.select_mode
        /\ last_action'.op = "exit_select_mode" =>
            llm_pane'.confirming # ~llm_pane'.select_mode
        /\ ~llm_pane'.select_mode =>
            llm_pane'.staged_model = None /\ ~llm_pane'.confirming]_vars

\* The confirmation screen, which opens only for a staged model other than
\* the selected one, has just been accepted.
C40_Witness ==
    /\ last_action.op = "confirm_yes"
    /\ ~llm_pane.select_mode
    /\ llm_pane.staged_model = None
    /\ llm_pane.selected_model \in DOMAIN AVAILABLE_MODELS
    /\ focused = llm_selection_pane

====
